---- MODULE Spec2Model ----
(***************************************************************************)
(* TransTube: the chunked subtitle pipeline (backend/utils/processor.py),  *)
(* the bilingual pagination of backend/utils/subtitle_embedder.py, the     *)
(* bilingual merger and the batch translator, as state machines.           *)
(*                                                                         *)
(* Times of the chunk pipeline are whole seconds (get_video_duration       *)
(* returns int, start_time is int).  A subtitle file is the sequence of    *)
(* its cues; a cue is a record [index, start, end, content].               *)
(***************************************************************************)
EXTENDS Integers, Sequences, FiniteSets, Bags, TLC

VARIABLES
    entry,            \* which public method was called
    pc,               \* position of the calling thread in that method
    duration,         \* what ffprobe reports for the video (seconds)
    chunk_duration,   \* self.chunk_duration
    max_workers,      \* self.max_workers
    transcribe_func,  \* the transcribe collaborator: chunk index -> cue-list option
    chunks,           \* the list split_video builds
    total_steps,      \* self.total_steps
    current_progress, \* self.current_progress
    last_progress,    \* the value last passed to progress_callback, [num, den]
    submitted,        \* how many futures executor.submit has returned
    fstate,           \* state of each chunk's future / task
    chunk_exc,        \* per chunk: the exception its task raised
    yielded,          \* futures as_completed has already yielded
    results,          \* the list `results` of process_video
    error,            \* the exception process_video lets escape
    is_sub_mp4,       \* whether the video's name contains ".sub.mp4"
    transcribe_calls, \* the calls of transcribe_func: a bag of chunk indices
    translate_calls,  \* the calls of translate_func: a bag of chunk indices
    late_starts,      \* tasks started after the caller had caught a chunk error
    adjusted,         \* adjusted_<name> files, in the order of srt_paths / zh_srt_paths
    merged_file,      \* content of <temp_dir>/merged.srt
    output_video,     \* what burn_subtitle produced
    temp_dir,         \* self.temp_dir on disk: "none", "created" or "removed"
    wrap_pc,          \* _wrap_srt_for_width: "called", "written" or "copied"
    wrap_in,          \* its input: the cue, max_eq, min_page, is_bilingual
    new_subs,         \* the list new_subs it builds
    wrap_out,         \* the cues of the file it writes to output_path
    bi_pc,            \* position in the translate stage and the bilingual merge
    bi_in,            \* en_subs and zh_subs: the transcript and what translate returned
    bi_out,           \* the cues of the bilingual file written
    bi_error,         \* the exception that left the stage or the merge
    tr_pc,            \* position in translate_subtitle_batch_enhanced
    tr_in,            \* its arguments: len(subs), use_three_stage, batch_size
    tr_i,             \* the loop variable i: cues before the current cue or batch
    tr_j,             \* the loop variable j of the loop that applies a batch's results
    mapping,          \* the indices for which the reply held a non-empty translation
    tr_content,       \* per cue: whether sub.content has been replaced
    translated_subs,  \* the list translated_subs: the cues appended, by number
    tasks,            \* main.py: the task table, task id -> task dict
    task_job,         \* per task: position of the worker running process_video_task_sync
    resumes,          \* per task: how often it has been resumed
    http_reply,       \* status code of the last reply of the task endpoints, 0: none yet
    done_file,        \* video_processor: per chunk, the lines of <chunk_path>.done
    fail_file,        \* per chunk: whether <chunk_path>.fail exists
    mark_pc,          \* per chunk: position of the process_chunk call
    mark_ret,         \* per chunk: what the last process_chunk call returned or raised
    mark_calls,       \* per chunk: how often process_chunk has been called
    srt_files,        \* video_processor.merge_subtitles: its argument srt_files
    vp_pc,            \* its position: "loop", "returned" or "raised"
    vp_file,          \* the input file the loop is in, from 1
    vp_line,          \* the line of that file the loop is at, from 1
    current_offset,   \* its local current_offset
    current_index,    \* its local current_index
    outfile           \* the lines written to output_path

poolVars == << entry, pc, duration, chunk_duration, max_workers, transcribe_func,
               chunks, total_steps, current_progress, last_progress, submitted,
               fstate, chunk_exc, yielded, results, error, is_sub_mp4,
               transcribe_calls, translate_calls, late_starts, adjusted,
               merged_file, output_video, temp_dir >>

wrapVars == << wrap_pc, wrap_in, new_subs, wrap_out >>

biVars == << bi_pc, bi_in, bi_out, bi_error >>

trVars == << tr_pc, tr_in, tr_i, tr_j, mapping, tr_content, translated_subs >>

taskVars == << tasks, task_job, resumes, http_reply >>

markVars == << done_file, fail_file, mark_pc, mark_ret, mark_calls >>

vpVars == << srt_files, vp_pc, vp_file, vp_line, current_offset, current_index, outfile >>

extVars == << taskVars, markVars, vpVars >>

vars == << poolVars, wrapVars, biVars, trVars, extVars >>

----------------------------------------------------------------------------
(* Bounds of the model. *)

\* split_video called on its own: durations 0..MaxPlanDuration
MaxPlanDuration == 12
\* split_video called on its own: chunk lengths 1..MaxPlanChunkLen
MaxPlanChunkLen == 5
\* process_video: durations 1200 + 300*k for k in 0..MaxDurationSteps
MaxDurationSteps == 2
\* process_video: max_workers in 1..MaxWorkers
MaxWorkers == 2
\* _wrap_srt_for_width: a line of the cue is any text of at most MaxTextLen
\* characters, or a word of at most MaxWordLen letters followed by fewer than
\* MaxWords one-letter words
MaxTextLen == 3
MaxWordLen == 5
MaxWords == 3
\* _wrap_srt_for_width: the cue lasts 0..MaxCueTime quarters of a second
MaxCueTime == 4
\* bilingual merge: each of the two files holds 0..MaxBiCues cues
MaxBiCues == 3
\* translate_subtitle_batch_enhanced: 0..MaxSubs cues, batch_size 1..MaxBatchSize
MaxSubs == 4
MaxBatchSize == 3
\* main.py: at most MaxTasks tasks are created, each resumed at most MaxResumes times
MaxTasks == 2
MaxResumes == 1
\* video_processor.process_chunk: MaxMarkChunks chunks, each processed at most
\* MaxChunkCalls times, audio durations 1..MaxAudioDuration
MaxMarkChunks == 2
MaxChunkCalls == 2
MaxAudioDuration == 2
\* video_processor.merge_subtitles: 1..MaxVpFiles files of 1..MaxVpCues cues
MaxVpFiles == 2
MaxVpCues == 2

(* Program constants. *)

\* `if duration < 1200` of process_video
ShortVideoThreshold == 1200

----------------------------------------------------------------------------
(* Generic helpers. *)

Min(a, b) == IF a <= b THEN a ELSE b

Max(a, b) == IF a >= b THEN a ELSE b

Range(s) == { s[k] : k \in DOMAIN s }

RECURSIVE SumSeq(_)
SumSeq(s) == IF s = << >> THEN 0 ELSE Head(s) + SumSeq(Tail(s))

RECURSIVE Concat(_)
Concat(ss) == IF ss = << >> THEN << >> ELSE Head(ss) \o Concat(Tail(ss))

----------------------------------------------------------------------------
(* VideoProcessor.update_progress *)

NoProgress == [num |-> 0, den |-> 1]

\* a plausible slip: the value is not capped at 100
ProgressValueUncapped(cp, ts) == [num |-> cp * 100, den |-> Max(1, ts)]

\* progress = min(100, current_progress * 100 / max(1, total_steps)), kept as
\* the exact fraction num/den
ProgressValue(cp, ts) ==
    LET d == Max(1, ts)
    IN  [num |-> Min(100 * d, cp * 100), den |-> d]

\* with self.lock: current_progress += increment; callback(message, progress)
UpdateProgress(increment) ==
    /\ current_progress' = current_progress + increment
    /\ last_progress' = ProgressValue(current_progress + increment, total_steps)

----------------------------------------------------------------------------
(* VideoProcessor.split_video: the chunk plan. *)

\* a plausible slip: floor instead of ceiling
ChunkCountFloor(D, L) == D \div L

\* a plausible slip: one more than the whole quotient
ChunkCountPlusOne(D, L) == D \div L + 1

\* chunk_count = (duration + self.chunk_duration - 1) // self.chunk_duration
ChunkCount(D, L) == (D + L - 1) \div L

\* the dict appended for range index i
PlanChunk(i, D, L) ==
    [index |-> i, start_time |-> i * L, duration |-> Min(L, D - i * L)]

----------------------------------------------------------------------------
(* The subtitle files of the chunk pipeline and the srt library calls made  *)
(* on them (srt.parse, srt.compose).                                        *)

NoContent == << >>

Sub(i, s, e, c) == [index |-> i, start |-> s, end |-> e, content |-> c]

\* Subtitle.__lt__ of the srt library: (start, end, index) compared in order
SubLess(a, b) ==
    \/ a.start < b.start
    \/ a.start = b.start /\ a.end < b.end
    \/ a.start = b.start /\ a.end = b.end /\ a.index < b.index

RECURSIVE InsertSub(_, _)
InsertSub(x, s) ==
    IF s = << >> THEN << x >>
    ELSE IF SubLess(x, Head(s)) THEN << x >> \o s
    ELSE << Head(s) >> \o InsertSub(x, Tail(s))

\* sorted(subtitles) of srt.sort_and_reindex (stable)
RECURSIVE SortSubs(_)
SortSubs(s) ==
    IF s = << >> THEN << >>
    ELSE InsertSub(s[Len(s)], SortSubs(SubSeq(s, 1, Len(s) - 1)))

\* srt._should_skip_sub: no content, negative start, or start >= end
ShouldSkip(sub) == sub.content = NoContent \/ sub.start < 0 \/ sub.start >= sub.end

\* a plausible slip: the cues kept are written with the index they carry
RECURSIVE SkipOnly(_, _)
SkipOnly(s, next) ==
    IF s = << >> THEN << >>
    ELSE IF ShouldSkip(Head(s)) THEN SkipOnly(Tail(s), next)
    ELSE << Head(s) >> \o SkipOnly(Tail(s), next)

RECURSIVE Reindex(_, _)
Reindex(s, next) ==
    IF s = << >> THEN << >>
    ELSE IF ShouldSkip(Head(s)) THEN Reindex(Tail(s), next)
    ELSE << [Head(s) EXCEPT !.index = next] >> \o Reindex(Tail(s), next + 1)

\* srt.compose(subs): sort_and_reindex (reindex=True, start_index=1), then the
\* text of the file; the file is kept as the sequence of the cues written,
\* which is what srt.parse reads back from it.
Compose(subs) == Reindex(SortSubs(subs), 1)

\* a plausible slip: only the start of a cue is shifted
ShiftStartOnly(subs, start_time) ==
    [k \in DOMAIN subs |-> [subs[k] EXCEPT !.start = @ + start_time]]

\* cues shifted by start_time (adjust_subtitle_timing, the for loop)
ShiftSubs(subs, start_time) ==
    [k \in DOMAIN subs |->
        [subs[k] EXCEPT !.start = @ + start_time, !.end = @ + start_time]]

\* a plausible slip: the file is written as it was read, unshifted
AdjustNoShift(file, start_time) == Compose(file)

\* VideoProcessor.adjust_subtitle_timing: parse, shift, compose into
\* adjusted_<basename>; the per-chunk files have distinct basenames
AdjustSubtitleTiming(file, start_time) == Compose(ShiftSubs(file, start_time))

RECURSIVE InsertByStart(_, _)
InsertByStart(x, s) ==
    IF s = << >> THEN << x >>
    ELSE IF x.start < Head(s).start THEN << x >> \o s
    ELSE << Head(s) >> \o InsertByStart(x, Tail(s))

\* all_subs.sort(key=lambda x: x.start): stable, by start only
RECURSIVE SortByStart(_)
SortByStart(s) ==
    IF s = << >> THEN << >>
    ELSE InsertByStart(s[Len(s)], SortByStart(SubSeq(s, 1, Len(s) - 1)))

\* for i, sub in enumerate(all_subs, 1): sub.index = i
Renumber(s) == [k \in DOMAIN s |-> [s[k] EXCEPT !.index = k]]

\* VideoProcessor.merge_subtitles: extend, sort by start, renumber, compose
MergeSubtitles(files) == Compose(Renumber(SortByStart(Concat(files))))

RECURSIVE InsertByIndex(_, _)
InsertByIndex(x, s) ==
    IF s = << >> THEN << x >>
    ELSE IF x.index < Head(s).index THEN << x >> \o s
    ELSE << Head(s) >> \o InsertByIndex(x, Tail(s))

\* a plausible slip: the results taken in completion order
ResultsInCompletionOrder(rs) == rs

\* sorted(results, key=lambda x: x['index'])
RECURSIVE SortByIndex(_)
SortByIndex(rs) ==
    IF rs = << >> THEN << >>
    ELSE InsertByIndex(rs[Len(rs)], SortByIndex(SubSeq(rs, 1, Len(rs) - 1)))

----------------------------------------------------------------------------
(* The collaborators handed to process_video. *)

\* What transcribe_func writes for chunk i of length L, per option k: cues in
\* chunk-local time.  Option 2 has a cue running past the chunk's end, options
\* 3 and 4 a cue starting at the chunk's end, option 5 no cue at all, option 6
\* a cue ending exactly at the chunk's end, option 7 its cues not in time order.
CueOption(k, i, L) ==
    CASE k = 1 -> << Sub(1, 0, 2, <<"en", i, 1>>), Sub(2, 3, 5, <<"en", i, 2>>) >>
      [] k = 2 -> << Sub(1, 0, 2, <<"en", i, 1>>), Sub(2, L - 1, L + 1, <<"en", i, 2>>) >>
      [] k = 3 -> << Sub(1, L, L + 2, <<"en", i, 1>>) >>
      [] k = 4 -> << Sub(1, L, L + 3, <<"en", i, 1>>) >>
      [] k = 6 -> << Sub(1, 0, 2, <<"en", i, 1>>), Sub(2, L - 2, L, <<"en", i, 2>>) >>
      [] k = 7 -> << Sub(1, 3, 5, <<"en", i, 1>>), Sub(2, 0, 2, <<"en", i, 2>>) >>
      [] OTHER -> << >>

CueOptions == 1..7

\* translate_func(srt_path): same cues, translated text
Translated(file) ==
    [k \in DOMAIN file |->
        [file[k] EXCEPT !.content = << "zh", @[2], @[3] >>]]

\* the exceptions a chunk task can raise
TranscribeRaised == [type |-> "TranscriptionError", message |-> "raised by transcribe_func"]

TranscribeNoFile == [type |-> "Exception", message |-> "transcribe: no valid subtitle file"]

TranslateRaised == [type |-> "TranslationError", message |-> "raised by translate_func"]

TranslateNoFile == [type |-> "Exception", message |-> "translate: no valid subtitle file"]

NoError == [type |-> "none", message |-> ""]

SplitError == [type |-> "Exception", message |-> "split failed"]

ProbeError == [type |-> "Exception", message |-> "cannot get video duration"]

BurnError == [type |-> "FileNotFoundError", message |-> "burned output missing"]

\* the whole video, where a chunk index is expected (the fast path)
WholeVideo == 0 - 1

----------------------------------------------------------------------------
(* State of a run. *)

NumChunks == ChunkCount(duration, chunk_duration)

ChunkIds == 0 .. (NumChunks - 1)

\* a plausible slip: one worker thread per chunk
PoolSizePerChunk == Max(1, NumChunks)

\* ThreadPoolExecutor(max_workers=self.max_workers)
PoolSize == max_workers

Running == { i \in ChunkIds : fstate[i] \in {"transcribing", "translating"} }

\* a plausible slip: shutdown(wait=False), no task is waited for
ShutdownNoWait == ChunkIds

\* the tasks shutdown(wait=True) has no more to wait for
Settled == { i \in ChunkIds : fstate[i] \in {"finished", "failed"} }

\* transcribe_func as an input: every chunk gets option 1 but one chunk
TranscribeFuncs(n) ==
    { [i \in 0 .. (n - 1) |-> IF i = j THEN k ELSE 1] :
        j \in 0 .. (n - 1), k \in CueOptions }

\* the srt file transcribe_func writes for chunk c
SrtOf(c) == CueOption(transcribe_func[c.index], c.index, c.duration)

\* self.temp_dir = tempfile.mkdtemp(): the directory exists from construction
\* on; no statement of the class removes it or a file in it
MkDTemp == "created"

\* the dict process_chunk returns
ChunkResult(c) ==
    [index |-> c.index, start_time |-> c.start_time, duration |-> c.duration,
     srt |-> SrtOf(c), zh_srt |-> Translated(SrtOf(c))]

InitRun ==
    /\ chunks = << >>
    /\ total_steps = 0
    /\ current_progress = 0
    /\ last_progress = NoProgress
    /\ submitted = 0
    /\ fstate = [i \in ChunkIds |-> "unsubmitted"]
    /\ chunk_exc = [i \in ChunkIds |-> NoError]
    /\ yielded = {}
    /\ results = << >>
    /\ error = NoError
    /\ transcribe_calls = EmptyBag
    /\ translate_calls = EmptyBag
    /\ late_starts = {}
    /\ adjusted = [srt |-> << >>, zh |-> << >>]
    /\ merged_file = << >>
    /\ output_video = "none"

\* no VideoProcessor exists
PoolIdle ==
    /\ entry = "none"
    /\ pc = "idle"
    /\ duration = 0
    /\ chunk_duration = 1
    /\ max_workers = 1
    /\ is_sub_mp4 = FALSE
    /\ transcribe_func = << >>
    /\ temp_dir = "none"
    /\ InitRun

\* _wrap_srt_for_width has not been called
WrapIdle ==
    /\ wrap_pc = "idle"
    /\ wrap_in = << >>
    /\ new_subs = << >>
    /\ wrap_out = << >>

\* no translated file is being merged
BiIdle ==
    /\ bi_pc = "idle"
    /\ bi_in = << >>
    /\ bi_out = << >>
    /\ bi_error = NoError

\* translate_subtitle_batch_enhanced has not been called
TrIdle ==
    /\ tr_pc = "idle"
    /\ tr_in = << >>
    /\ tr_i = 0
    /\ tr_j = 0
    /\ mapping = {}
    /\ tr_content = << >>
    /\ translated_subs = << >>

\* no task has been created
TaskIdle ==
    /\ tasks = << >>
    /\ task_job = << >>
    /\ resumes = << >>
    /\ http_reply = 0

\* process_chunk of video_processor has not been called
MarkIdle ==
    /\ done_file = << >>
    /\ fail_file = << >>
    /\ mark_pc = << >>
    /\ mark_ret = << >>
    /\ mark_calls = << >>

\* merge_subtitles of video_processor has not been called
VpIdle ==
    /\ srt_files = << >>
    /\ vp_pc = "idle"
    /\ vp_file = 0
    /\ vp_line = 0
    /\ current_offset = 0
    /\ current_index = 0
    /\ outfile = << >>

ExtIdle == TaskIdle /\ MarkIdle /\ VpIdle

\* the durations process_video is run on: two short videos and long ones
PoolDurations == {600, 1199} \cup { 1200 + 300 * k : k \in 0 .. MaxDurationSteps }

InitPool ==
    /\ entry = "process_video"
    /\ pc = "start"
    /\ duration \in PoolDurations
    /\ chunk_duration \in {600, 1200}
    /\ max_workers \in 1 .. MaxWorkers
    /\ is_sub_mp4 \in BOOLEAN
    /\ is_sub_mp4 => (duration = 600 /\ chunk_duration = 600 /\ max_workers = 1)
    /\ transcribe_func \in TranscribeFuncs(NumChunks)
    /\ temp_dir = MkDTemp
    /\ InitRun
    /\ WrapIdle /\ BiIdle /\ TrIdle /\ ExtIdle

InitPlan ==
    /\ entry = "split_video"
    /\ pc = "split_begin"
    /\ duration \in 0 .. MaxPlanDuration
    /\ chunk_duration \in 1 .. MaxPlanChunkLen
    /\ max_workers = 1
    /\ is_sub_mp4 = FALSE
    /\ transcribe_func = [i \in ChunkIds |-> 1]
    /\ temp_dir = MkDTemp
    /\ InitRun
    /\ WrapIdle /\ BiIdle /\ TrIdle /\ ExtIdle

----------------------------------------------------------------------------
(* VideoProcessor.split_video *)

\* what no step of a VideoProcessor run changes: its inputs, and the state of
\* the other components
runUnchanged == << entry, duration, chunk_duration, max_workers, is_sub_mp4,
                   transcribe_func, temp_dir, wrapVars, biVars, trVars, extVars >>

poolUnchanged == << submitted, fstate, chunk_exc, yielded, results,
                    transcribe_calls, translate_calls, late_starts >>

tailUnchanged == << adjusted, merged_file, output_video >>

\* duration = get_video_duration(); chunk_count; self.total_steps = chunk_count * 3 + 2
SplitBegin ==
    /\ pc = "split_begin"
    /\ pc' = "split"
    /\ total_steps' = NumChunks * 3 + 2
    /\ chunks' = << >>
    /\ UNCHANGED << runUnchanged, poolUnchanged, tailUnchanged, current_progress,
                    last_progress, error >>

\* one round of `for i in range(chunk_count)`: ffmpeg succeeded
SplitChunk ==
    /\ pc = "split"
    /\ Len(chunks) < NumChunks
    /\ chunks' = Append(chunks, PlanChunk(Len(chunks), duration, chunk_duration))
    /\ UpdateProgress(1)
    /\ UNCHANGED << runUnchanged, poolUnchanged, tailUnchanged, pc, total_steps, error >>

\* one round of the loop: ffmpeg failed or wrote an empty file
SplitFail ==
    /\ pc = "split"
    /\ Len(chunks) < NumChunks
    /\ error' = SplitError
    /\ pc' = "raised"
    /\ UNCHANGED << runUnchanged, poolUnchanged, tailUnchanged, chunks, total_steps,
                    current_progress, last_progress >>

\* return chunks
SplitReturn ==
    /\ pc = "split"
    /\ Len(chunks) = NumChunks
    /\ pc' = IF entry = "split_video" THEN "split_returned" ELSE "submit"
    /\ UNCHANGED << runUnchanged, poolUnchanged, tailUnchanged, chunks, total_steps,
                    current_progress, last_progress, error >>

NextPlan == SplitBegin \/ SplitChunk \/ SplitFail \/ SplitReturn

SpecPlan == InitPlan /\ [][NextPlan]_vars

----------------------------------------------------------------------------
(* VideoProcessor.process_video: entry, and the fast path of short videos. *)

planUnchanged == << chunks, total_steps >>

progressUnchanged == << current_progress, last_progress >>

\* a plausible slip: a video of exactly the threshold taken as short
IsShortInclusive(d) == d <= ShortVideoThreshold

\* `if duration < 1200`
IsShort(d) == d < ShortVideoThreshold

\* video name contains ".sub.mp4": return (video_path, srt_path) untouched
ReturnAlreadySubtitled ==
    /\ pc = "start"
    /\ is_sub_mp4
    /\ pc' = "returned"
    /\ output_video' = "input"
    /\ UNCHANGED << runUnchanged, poolUnchanged, planUnchanged, progressUnchanged,
                    error, adjusted, merged_file >>

\* get_video_duration raises
ProbeFail ==
    /\ pc = "start"
    /\ ~is_sub_mp4
    /\ error' = ProbeError
    /\ pc' = "raised"
    /\ UNCHANGED << runUnchanged, poolUnchanged, planUnchanged, progressUnchanged,
                    tailUnchanged >>

\* duration < 1200: two update_progress(.., 0), then transcribe_func(video_path)
BeginFast ==
    /\ pc = "start"
    /\ ~is_sub_mp4
    /\ IsShort(duration)
    /\ UpdateProgress(0)
    /\ transcribe_calls' = transcribe_calls (+) SetToBag({WholeVideo})
    /\ pc' = "fast_transcribe"
    /\ UNCHANGED << runUnchanged, planUnchanged, tailUnchanged, error, submitted,
                    fstate, chunk_exc, yielded, results, translate_calls, late_starts >>

\* duration >= 1200: chunks = self.split_video(video_path)
BeginChunked ==
    /\ pc = "start"
    /\ ~is_sub_mp4
    /\ ~IsShort(duration)
    /\ pc' = "split_begin"
    /\ UNCHANGED << runUnchanged, poolUnchanged, planUnchanged, progressUnchanged,
                    tailUnchanged, error >>

\* the srt file transcribe_func writes for the whole video
WholeSrt == CueOption(transcribe_func[0], 0, duration)

\* transcribe returned a file: progress +30, then translate_func(srt_path)
FastTranscribeOk ==
    /\ pc = "fast_transcribe"
    /\ UpdateProgress(30)
    /\ translate_calls' = translate_calls (+) SetToBag({WholeVideo})
    /\ pc' = "fast_translate"
    /\ UNCHANGED << runUnchanged, planUnchanged, tailUnchanged, error, submitted,
                    fstate, chunk_exc, yielded, results, transcribe_calls, late_starts >>

\* transcribe raised, or returned no existing file
FastTranscribeFail ==
    /\ pc = "fast_transcribe"
    /\ error' \in {TranscribeRaised, TranscribeNoFile}
    /\ pc' = "raised"
    /\ UNCHANGED << runUnchanged, poolUnchanged, planUnchanged, progressUnchanged,
                    tailUnchanged >>

\* translate returned a file: progress +30, then burn_subtitle
FastTranslateOk ==
    /\ pc = "fast_translate"
    /\ UpdateProgress(30)
    /\ merged_file' = Translated(WholeSrt)
    /\ pc' = "fast_burn"
    /\ UNCHANGED << runUnchanged, poolUnchanged, planUnchanged, error, adjusted,
                    output_video >>

\* translate raised, or returned no existing file
FastTranslateFail ==
    /\ pc = "fast_translate"
    /\ error' \in {TranslateRaised, TranslateNoFile}
    /\ pc' = "raised"
    /\ UNCHANGED << runUnchanged, poolUnchanged, planUnchanged, progressUnchanged,
                    tailUnchanged >>

\* burn_subtitle wrote the output: progress +30, return
FastBurnOk ==
    /\ pc = "fast_burn"
    /\ UpdateProgress(30)
    /\ output_video' = "burned"
    /\ pc' = "returned"
    /\ UNCHANGED << runUnchanged, poolUnchanged, planUnchanged, error, adjusted,
                    merged_file >>

----------------------------------------------------------------------------
(* The chunked path: the worker pool. *)

\* a plausible slip: the handler logs and goes on with the next future
AfterChunkExceptionSwallowed == "collect"

\* what the handler `except Exception: ... raise` of the as_completed loop does
\* next: the exception leaves the with block
AfterChunkException == "unwinding"

\* executor.submit(self.process_chunk, chunk, ...) for the next chunk
Submit ==
    /\ pc = "submit"
    /\ submitted < Len(chunks)
    /\ fstate' = [fstate EXCEPT ![submitted] = "pending"]
    /\ submitted' = submitted + 1
    /\ pc' = IF submitted + 1 = Len(chunks) THEN "collect" ELSE "submit"
    /\ UNCHANGED << runUnchanged, planUnchanged, progressUnchanged, tailUnchanged,
                    chunk_exc, yielded, results, error, transcribe_calls,
                    translate_calls, late_starts >>

\* a worker thread takes the oldest queued work item; nothing ever cancels an
\* item, so it runs also while the with block is being left on an exception.
\* process_chunk: update_progress(.., 0); transcribe_func(chunk_path) is called
StartChunk(i) ==
    /\ fstate[i] = "pending"
    /\ \A j \in ChunkIds : j < i => fstate[j] # "pending"
    /\ Cardinality(Running) < PoolSize
    /\ fstate' = [fstate EXCEPT ![i] = "transcribing"]
    /\ transcribe_calls' = transcribe_calls (+) SetToBag({i})
    /\ late_starts' = IF pc = "unwinding" THEN late_starts \cup {i} ELSE late_starts
    /\ UpdateProgress(0)
    /\ UNCHANGED << runUnchanged, planUnchanged, tailUnchanged, pc, submitted,
                    chunk_exc, yielded, results, error, translate_calls >>

\* transcribe returned a file: progress +1, then translate_func(srt_path)
TranscribeOk(i) ==
    /\ fstate[i] = "transcribing"
    /\ fstate' = [fstate EXCEPT ![i] = "translating"]
    /\ translate_calls' = translate_calls (+) SetToBag({i})
    /\ UpdateProgress(1)
    /\ UNCHANGED << runUnchanged, planUnchanged, tailUnchanged, pc, submitted,
                    chunk_exc, yielded, results, error, transcribe_calls, late_starts >>

\* the task ends with exception exc (logged and re-raised by process_chunk)
TaskFails(i, exc) ==
    /\ fstate' = [fstate EXCEPT ![i] = "failed"]
    /\ chunk_exc' = [chunk_exc EXCEPT ![i] = exc]
    /\ UNCHANGED << runUnchanged, planUnchanged, progressUnchanged, tailUnchanged,
                    pc, submitted, yielded, results, error, transcribe_calls,
                    translate_calls, late_starts >>

\* transcribe raised, or returned no existing file
TranscribeFail(i) ==
    /\ fstate[i] = "transcribing"
    /\ \E exc \in {TranscribeRaised, TranscribeNoFile} : TaskFails(i, exc)

\* translate returned a file: progress +1, the task returns its dict
TranslateOk(i) ==
    /\ fstate[i] = "translating"
    /\ fstate' = [fstate EXCEPT ![i] = "finished"]
    /\ UpdateProgress(1)
    /\ UNCHANGED << runUnchanged, planUnchanged, tailUnchanged, pc, submitted,
                    chunk_exc, yielded, results, error, transcribe_calls,
                    translate_calls, late_starts >>

\* translate raised, or returned no existing file
TranslateFail(i) ==
    /\ fstate[i] = "translating"
    /\ \E exc \in {TranslateRaised, TranslateNoFile} : TaskFails(i, exc)

\* as_completed yields a finished future; future.result() returns its dict
CollectResult(i) ==
    /\ pc = "collect"
    /\ i \notin yielded
    /\ fstate[i] = "finished"
    /\ yielded' = yielded \cup {i}
    /\ results' = Append(results, ChunkResult(chunks[i + 1]))
    /\ UNCHANGED << runUnchanged, planUnchanged, progressUnchanged, tailUnchanged,
                    pc, submitted, fstate, chunk_exc, error, transcribe_calls,
                    translate_calls, late_starts >>

\* as_completed yields a failed future; future.result() raises its exception,
\* which the handler logs and re-raises as it is
CollectException(i) ==
    /\ pc = "collect"
    /\ i \notin yielded
    /\ fstate[i] = "failed"
    /\ yielded' = yielded \cup {i}
    /\ error' = chunk_exc[i]
    /\ pc' = AfterChunkException
    /\ UNCHANGED << runUnchanged, planUnchanged, progressUnchanged, tailUnchanged,
                    submitted, fstate, chunk_exc, results, transcribe_calls,
                    translate_calls, late_starts >>

\* ThreadPoolExecutor.__exit__ on the exception: shutdown(wait=True) returns
\* when every submitted task has run to its end; the exception goes on to the
\* caller through `except Exception: ... raise`
UnwindRaise ==
    /\ pc = "unwinding"
    /\ Settled = ChunkIds
    /\ pc' = "raised"
    /\ UNCHANGED << runUnchanged, poolUnchanged, planUnchanged, progressUnchanged,
                    tailUnchanged, error >>

\* as_completed is exhausted; the with block is left with every task done
CollectDone ==
    /\ pc = "collect"
    /\ yielded = ChunkIds
    /\ pc' = "adjust"
    /\ UNCHANGED << runUnchanged, poolUnchanged, planUnchanged, progressUnchanged,
                    tailUnchanged, error >>

----------------------------------------------------------------------------
(* The chunked path: timestamps, merge, burn. *)

\* for result in sorted(results, key=index): both files of the chunk shifted
\* by its start_time
AdjustedFiles(rs, track) ==
    [k \in DOMAIN rs |->
        AdjustSubtitleTiming(IF track = "zh" THEN rs[k].zh_srt ELSE rs[k].srt,
                             rs[k].start_time)]

AdjustTimestamps ==
    /\ pc = "adjust"
    /\ adjusted' = [srt |-> AdjustedFiles(SortByIndex(results), "srt"),
                    zh  |-> AdjustedFiles(SortByIndex(results), "zh")]
    /\ pc' = "merge_srt"
    /\ UNCHANGED << runUnchanged, poolUnchanged, planUnchanged, progressUnchanged,
                    error, merged_file, output_video >>

\* merged_srt = self.merge_subtitles(srt_paths): writes <temp_dir>/merged.srt
MergeSrt ==
    /\ pc = "merge_srt"
    /\ merged_file' = MergeSubtitles(adjusted.srt)
    /\ pc' = "merge_zh_srt"
    /\ UNCHANGED << runUnchanged, poolUnchanged, planUnchanged, progressUnchanged,
                    error, adjusted, output_video >>

\* merged_zh_srt = self.merge_subtitles(zh_srt_paths): the same merged.srt,
\* written again; update_progress(.., 0); burn_subtitle is called
MergeZhSrt ==
    /\ pc = "merge_zh_srt"
    /\ merged_file' = MergeSubtitles(adjusted.zh)
    /\ UpdateProgress(0)
    /\ pc' = "burn"
    /\ UNCHANGED << runUnchanged, poolUnchanged, planUnchanged, error, adjusted,
                    output_video >>

\* burn_subtitle wrote the output: progress +10, return
BurnOk ==
    /\ pc = "burn"
    /\ output_video' = "burned"
    /\ UpdateProgress(10)
    /\ pc' = "returned"
    /\ UNCHANGED << runUnchanged, poolUnchanged, planUnchanged, error, adjusted,
                    merged_file >>

\* burn_subtitle raised or its output file does not exist
BurnFail ==
    /\ pc \in {"burn", "fast_burn"}
    /\ error' = BurnError
    /\ pc' = "raised"
    /\ UNCHANGED << runUnchanged, poolUnchanged, planUnchanged, progressUnchanged,
                    tailUnchanged >>

NextPool ==
    \/ ReturnAlreadySubtitled \/ ProbeFail \/ BeginFast \/ BeginChunked
    \/ FastTranscribeOk \/ FastTranscribeFail \/ FastTranslateOk
    \/ FastTranslateFail \/ FastBurnOk
    \/ SplitBegin \/ SplitChunk \/ SplitFail \/ SplitReturn
    \/ Submit
    \/ \E i \in ChunkIds : StartChunk(i)
    \/ \E i \in ChunkIds : TranscribeOk(i)
    \/ \E i \in ChunkIds : TranscribeFail(i)
    \/ \E i \in ChunkIds : TranslateOk(i)
    \/ \E i \in ChunkIds : TranslateFail(i)
    \/ \E i \in ChunkIds : CollectResult(i)
    \/ \E i \in ChunkIds : CollectException(i)
    \/ UnwindRaise \/ CollectDone
    \/ AdjustTimestamps \/ MergeSrt \/ MergeZhSrt \/ BurnOk \/ BurnFail

SpecPool == InitPool /\ [][NextPool]_vars

----------------------------------------------------------------------------
(* subtitle_embedder.py: equivalent width and soft wrapping.                *)
(* A text is a sequence of characters: "a" an ASCII letter, " " a space,    *)
(* "H" a CJK ideograph (U+4E00..U+9FFF), "E" any other character.  Widths   *)
(* are in tenths of an equivalent character.                                *)

\* _measure_line_equivalent_chars, one character: CJK 1.0, ASCII 0.6, else 0.8
CharUnits(ch) == IF ch = "H" THEN 10 ELSE IF ch \in {"a", " "} THEN 6 ELSE 8

\* _measure_line_equivalent_chars
RECURSIVE EqUnits(_)
EqUnits(line) == IF line = << >> THEN 0 ELSE CharUnits(Head(line)) + EqUnits(Tail(line))

RECURSIVE LStrip(_)
LStrip(t) == IF t # << >> /\ Head(t) = " " THEN LStrip(Tail(t)) ELSE t

RECURSIVE RStrip(_)
RStrip(t) ==
    IF t # << >> /\ t[Len(t)] = " " THEN RStrip(SubSeq(t, 1, Len(t) - 1)) ELSE t

\* str.strip()
Strip(t) == RStrip(LStrip(t))

\* str.split(): the maximal runs of non-space characters; cur is the run being read
RECURSIVE SplitTokens(_, _)
SplitTokens(t, cur) ==
    IF t = << >> THEN (IF cur = << >> THEN << >> ELSE << cur >>)
    ELSE IF Head(t) = " "
         THEN (IF cur = << >> THEN << >> ELSE << cur >>) \o SplitTokens(Tail(t), << >>)
         ELSE SplitTokens(Tail(t), Append(cur, Head(t)))

\* a plausible slip: a line exactly as wide as the maximum is broken
RECURSIVE WrapItemsStrict(_, _, _, _)
WrapItemsStrict(items, cur, sep, max_eq) ==
    IF items = << >> THEN (IF cur # << >> THEN << cur >> ELSE << >>)
    ELSE LET pending == cur \o (IF cur # << >> THEN sep ELSE << >>) \o Head(items)
         IN  IF EqUnits(pending) < max_eq \/ cur = << >>
             THEN WrapItemsStrict(Tail(items), pending, sep, max_eq)
             ELSE << cur >> \o WrapItemsStrict(Tail(items), Head(items), sep, max_eq)

\* a plausible slip: after a break the new line starts empty instead of with
\* the item that did not fit
RECURSIVE WrapItemsLosing(_, _, _, _)
WrapItemsLosing(items, cur, sep, max_eq) ==
    IF items = << >> THEN (IF cur # << >> THEN << cur >> ELSE << >>)
    ELSE LET pending == cur \o (IF cur # << >> THEN sep ELSE << >>) \o Head(items)
         IN  IF EqUnits(pending) <= max_eq \/ cur = << >>
             THEN WrapItemsLosing(Tail(items), pending, sep, max_eq)
             ELSE << cur >> \o WrapItemsLosing(Tail(items), << >>, sep, max_eq)

\* the loop `for tok in tokens` (sep = one space) and the loop `for ch in text`
\* (sep empty, items the single characters), then `if cur: lines.append(cur)`
RECURSIVE WrapItems(_, _, _, _)
WrapItems(items, cur, sep, max_eq) ==
    IF items = << >> THEN (IF cur # << >> THEN << cur >> ELSE << >>)
    ELSE LET pending == cur \o (IF cur # << >> THEN sep ELSE << >>) \o Head(items)
         IN  IF EqUnits(pending) <= max_eq \/ cur = << >>
             THEN WrapItems(Tail(items), pending, sep, max_eq)
             ELSE << cur >> \o WrapItems(Tail(items), Head(items), sep, max_eq)

\* _wrap_line_by_eq(text, max_eq).split('\n'): the wrapped lines; a text that
\* is empty once stripped gives the one line ""
WrapLineByEq(text, max_eq) ==
    LET t == Strip(text)
        tokens == SplitTokens(t, << >>)
    IN  IF t = << >> THEN << << >> >>
        ELSE IF Len(tokens) > 1 THEN WrapItems(tokens, << >>, << " " >>, max_eq)
        ELSE WrapItems([k \in DOMAIN t |-> << t[k] >>], << >>, << >>, max_eq)

\* a plausible slip: zip(en_wrapped, zh_wrapped), which stops at the shorter list
ZipShortest(en_line, zh_line, max_eq) ==
    LET en_wrapped == IF en_line # << >> THEN WrapLineByEq(en_line, max_eq) ELSE << >>
        zh_wrapped == IF zh_line # << >> THEN WrapLineByEq(zh_line, max_eq) ELSE << >>
        n == IF Min(Len(en_wrapped), Len(zh_wrapped)) = 0 THEN 1
             ELSE Min(Len(en_wrapped), Len(zh_wrapped))
    IN  [i \in 1 .. n |->
            [en |-> IF i <= Len(en_wrapped) THEN en_wrapped[i] ELSE << >>,
             zh |-> IF i <= Len(zh_wrapped) THEN zh_wrapped[i] ELSE << >>]]

\* _split_bilingual_pages: the wrapped lines zipped index by index
SplitBilingualPages(en_line, zh_line, max_eq) ==
    LET en_wrapped == IF en_line # << >> THEN WrapLineByEq(en_line, max_eq) ELSE << >>
        zh_wrapped == IF zh_line # << >> THEN WrapLineByEq(zh_line, max_eq) ELSE << >>
        n == IF Max(Len(en_wrapped), Len(zh_wrapped)) = 0 THEN 1
             ELSE Max(Len(en_wrapped), Len(zh_wrapped))
    IN  [i \in 1 .. n |->
            [en |-> IF i <= Len(en_wrapped) THEN en_wrapped[i] ELSE << >>,
             zh |-> IF i <= Len(zh_wrapped) THEN zh_wrapped[i] ELSE << >>]]

----------------------------------------------------------------------------
(* subtitle_embedder.py, _wrap_srt_for_width: the time given to each page.  *)
(* Times are in microseconds, the resolution of timedelta.  The float       *)
(* arithmetic is done exactly, on fractions over one common denominator;    *)
(* timedelta(seconds=dur) rounds to the nearest microsecond, half to even.  *)

\* one second, in microseconds
MicrosPerSecond == 1000000

\* `(sub.end - sub.start).total_seconds() or 0.001`, in microseconds
ZeroDurationFallback == 1000

\* float(os.getenv('SUBTITLE_PAGE_MIN_SEC', '0.9')), in microseconds
DefaultPageMinSec == 900000

\* one millisecond, the resolution of an SRT timestamp, in microseconds
MicrosPerMilli == 1000

\* srt.timedelta_to_srt_timestamp: `msecs = microseconds // 1000`
SrtTimestamp(t) == (t \div MicrosPerMilli) * MicrosPerMilli

\* the cues of the file srt.compose writes: their times as the timestamps hold them
WrittenSrt(subs) ==
    [k \in DOMAIN subs |->
        [subs[k] EXCEPT !.start = SrtTimestamp(@), !.end = SrtTimestamp(@)]]

\* (_eq_units(en_i) + _eq_units(zh_i)) or 1.0
PageUnits(page) ==
    IF EqUnits(page.en) + EqUnits(page.zh) = 0 THEN 10
    ELSE EqUnits(page.en) + EqUnits(page.zh)

PageUnitsSeq(pages) == [i \in DOMAIN pages |-> PageUnits(pages[i])]

\* total_sec
TotalTime(start, end) == IF end - start = 0 THEN ZeroDurationFallback ELSE end - start

\* timedelta(seconds=num/den): nearest microsecond, ties to even
RoundHalfEven(num, den) ==
    LET q == num \div den
        r == num % den
    IN  IF 2 * r < den THEN q
        ELSE IF 2 * r > den THEN q + 1
        ELSE IF q % 2 = 0 THEN q ELSE q + 1

\* the common denominator of the durations of one cue: total_units * len(pages)
DurDen(pages) == SumSeq(PageUnitsSeq(pages)) * Len(pages)

\* min_page * ratio over DurDen: min_page when total_sec >= need, else
\* min_page * (total_sec / (min_page * len(pages)))
FloorNum(pages, total, min_page) ==
    IF total >= min_page * Len(pages) THEN min_page * DurDen(pages)
    ELSE total * SumSeq(PageUnitsSeq(pages))

\* max(min_page * ratio, (units / total_units) * total_sec) over DurDen
PageDurNum(pages, i, total, min_page) ==
    Max(FloorNum(pages, total, min_page), PageUnits(pages[i]) * total * Len(pages))

\* acc before page i: the sum of the dur of the pages before it, over DurDen
RECURSIVE AccNum(_, _, _, _)
AccNum(pages, i, total, min_page) ==
    IF i = 1 THEN 0
    ELSE AccNum(pages, i - 1, total, min_page) + PageDurNum(pages, i - 1, total, min_page)

\* dur of page i: the last page gets total_sec - acc
DurNum(pages, i, total, min_page) ==
    IF i = Len(pages) THEN total * DurDen(pages) - AccNum(pages, i, total, min_page)
    ELSE PageDurNum(pages, i, total, min_page)

\* cur_end after page i: cur_start + timedelta(seconds=dur), page by page
RECURSIVE PageEnd(_, _, _, _, _)
PageEnd(pages, i, start, total, min_page) ==
    IF i = 0 THEN start
    ELSE PageEnd(pages, i - 1, start, total, min_page)
            + RoundHalfEven(DurNum(pages, i, total, min_page), DurDen(pages))

\* page_text = (en_i + ("\n" if zh_i else "") + zh_i).strip(), as its lines
PageText(page) ==
    IF page.zh # << >> THEN (IF page.en # << >> THEN << page.en, page.zh >> ELSE << page.zh >>)
    ELSE (IF page.en # << >> THEN << page.en >> ELSE NoContent)

\* the srt.Subtitle objects appended to new_subs for one bilingual cue
BilingualPages(sub, max_eq, min_page) ==
    LET pages == SplitBilingualPages(sub.en_line, sub.zh_line, max_eq)
        total == TotalTime(sub.start, sub.end)
    IN  [i \in DOMAIN pages |->
            Sub(0, PageEnd(pages, i - 1, sub.start, total, min_page),
                   PageEnd(pages, i, sub.start, total, min_page),
                   PageText(pages[i]))]

\* the one srt.Subtitle appended for a monolingual cue: the whole content
\* wrapped (its line break is white space to strip() and split())
MonolingualSub(sub, max_eq) ==
    LET content == IF sub.zh_line = << >> THEN sub.en_line
                   ELSE sub.en_line \o << " " >> \o sub.zh_line
        wrapped == WrapLineByEq(content, max_eq)
    IN  << Sub(0, sub.start, sub.end, IF wrapped = << << >> >> THEN NoContent ELSE wrapped) >>

----------------------------------------------------------------------------
(* _wrap_srt_for_width on a file of one cue. *)

Texts(alphabet) == UNION { [1 .. k -> alphabet] : k \in 0 .. MaxTextLen }

\* a word of n letters
Word(n) == [k \in 1 .. n |-> "a"]

\* a word of n letters followed by k one-letter words
RECURSIVE HeadedLine(_, _)
HeadedLine(n, k) == IF k = 0 THEN Word(n) ELSE HeadedLine(n, k - 1) \o << " ", "a" >>

HeadedLines == { HeadedLine(n, k) : n \in 1 .. MaxWordLen, k \in 0 .. (MaxWords - 1) }

\* the unit of the cue lengths tried: a quarter of a second
CueTick == MicrosPerSecond \div 4

\* the cue read from input_path: content.split("\n") gives en_line, zh_line
WrapCues ==
    { [start |-> 10 * MicrosPerSecond, end |-> 10 * MicrosPerSecond + d * CueTick,
       en_line |-> en, zh_line |-> zh] :
        d \in 0 .. MaxCueTime,
        en \in Texts({"a", " "}) \cup HeadedLines,
        zh \in Texts({"H", "E"}) }

InitWrap ==
    /\ wrap_pc = "called"
    /\ wrap_in \in [sub : { c \in WrapCues : c.en_line = << >> => c.zh_line = << >> },
                    max_eq : {5, 10, 16, 20},
                    min_page : {0, DefaultPageMinSec \div 3, DefaultPageMinSec},
                    is_bilingual : BOOLEAN]
    /\ new_subs = << >>
    /\ wrap_out = << >>
    /\ PoolIdle /\ BiIdle /\ TrIdle /\ ExtIdle

\* the input cannot be read: shutil.copy2(input_path, output_path)
WrapCopy ==
    /\ wrap_pc = "called"
    /\ wrap_pc' = "copied"
    /\ wrap_out' = << Sub(1, wrap_in.sub.start, wrap_in.sub.end,
                          PageText([en |-> wrap_in.sub.en_line, zh |-> wrap_in.sub.zh_line])) >>
    /\ UNCHANGED << wrap_in, new_subs, poolVars, biVars, trVars, extVars >>

\* the loop over subs, then the renumbering and srt.compose(new_subs)
WrapSrtForWidth ==
    /\ wrap_pc = "called"
    /\ wrap_pc' = "written"
    /\ new_subs' = IF wrap_in.is_bilingual
                   THEN BilingualPages(wrap_in.sub, wrap_in.max_eq, wrap_in.min_page)
                   ELSE MonolingualSub(wrap_in.sub, wrap_in.max_eq)
    /\ wrap_out' = WrittenSrt(Compose(Renumber(new_subs')))
    /\ UNCHANGED << wrap_in, poolVars, biVars, trVars, extVars >>

NextWrap == WrapCopy \/ WrapSrtForWidth

SpecWrap == InitWrap /\ [][NextWrap]_vars

----------------------------------------------------------------------------
(* processor.py, the translate stage of process_chunk, and                  *)
(* bilingual_subtitle_merger.py.  A cue text is one stripped line without   *)
(* line break, on which merge_inline_linebreaks and collapse_linebreaks     *)
(* return their argument; "a" is an ASCII letter, "H" a CJK ideograph.      *)

\* has_chinese: some character lies in U+4E00..U+9FFF
HasChinese(text) == \E k \in DOMAIN text : text[k] = "H"

\* validate_translation: the translation, or the English text in its place
ValidateTranslation(en_text, zh_text) ==
    IF zh_text = << >> \/ ~HasChinese(zh_text) \/ zh_text = en_text THEN en_text
    ELSE zh_text

\* create_bilingual_content with SUBTITLE_BILINGUAL_STYLE off: the lines of the cue
CreateBilingualContent(en_text, zh_text) ==
    IF zh_text = << >> \/ zh_text = en_text
    THEN (IF en_text # << >> THEN << en_text >> ELSE NoContent)
    ELSE IF en_text = << >> THEN << zh_text >>
    ELSE << en_text, zh_text >>

\* sub.content.strip() of a cue of one line
CueText(sub) == IF sub.content = NoContent THEN << >> ELSE sub.content[1]

\* bilingual_subs of create_bilingual_subtitles_from_translation: one cue per
\* English cue, with zh_subs[i] if i < len(zh_subs) else None
FromTranslationSubs(en_subs, zh_subs) ==
    [i \in DOMAIN en_subs |->
        LET en_text == CueText(en_subs[i])
            zh_text == IF i <= Len(zh_subs) THEN CueText(zh_subs[i]) ELSE << >>
        IN  Sub(i, en_subs[i].start, en_subs[i].end,
                CreateBilingualContent(en_text, ValidateTranslation(en_text, zh_text)))]

\* bilingual_subs of merge_bilingual_subtitles: range(max(len(en_subs), len(zh_subs)))
MergedBilingualSubs(en_subs, zh_subs) ==
    [i \in 1 .. Max(Len(en_subs), Len(zh_subs)) |->
        LET timed == IF i <= Len(en_subs) THEN en_subs[i] ELSE zh_subs[i]
            en_text == IF i <= Len(en_subs) THEN CueText(en_subs[i]) ELSE << >>
            zh_text == IF i <= Len(zh_subs) THEN CueText(zh_subs[i]) ELSE << >>
        IN  Sub(i, timed.start, timed.end, CreateBilingualContent(en_text, zh_text))]

\* the files of n cues, cue k lasting from 2k to 2k+1, with texts taken from a set
SrtFiles(texts) ==
    UNION { [1 .. n -> texts] : n \in 0 .. MaxBiCues }

TimedFile(file) == [k \in DOMAIN file |-> Sub(k, 2 * k, 2 * k + 1, << file[k] >>)]

BilingualError == [type |-> "Exception", message |-> "create bilingual subtitles failed"]

\* translate_func(srt_path) has returned: the transcript, and the file it names
InitBilingual ==
    /\ bi_pc = "translated"
    /\ \E en \in SrtFiles({<< "a" >>, << "a", "a" >>}),
          zh \in SrtFiles({<< "H" >>, << "a" >>}) :
            bi_in = [en_subs |-> TimedFile(en), zh_subs |-> TimedFile(zh)]
    /\ bi_out = << >>
    /\ bi_error = NoError
    /\ PoolIdle /\ WrapIdle /\ TrIdle /\ ExtIdle

biUnchanged == << bi_in, poolVars, wrapVars, trVars, extVars >>

\* process_chunk: `if not zh_srt_path or not os.path.exists(zh_srt_path)` is false
TranslateStageAccepts ==
    /\ bi_pc = "translated"
    /\ bi_pc' = "accepted"
    /\ UNCHANGED << bi_out, bi_error, biUnchanged >>

\* process_chunk: the file translate_func names does not exist
TranslateStageNoFile ==
    /\ bi_pc = "translated"
    /\ bi_pc' = "raised"
    /\ bi_error' = TranslateNoFile
    /\ UNCHANGED << bi_out, biUnchanged >>

CreateBilingualSubtitlesFromTranslation ==
    /\ bi_pc = "accepted"
    /\ bi_pc' = "returned"
    /\ bi_out' = Compose(FromTranslationSubs(bi_in.en_subs, bi_in.zh_subs))
    /\ UNCHANGED << bi_error, biUnchanged >>

MergeBilingualSubtitles ==
    /\ bi_pc = "accepted"
    /\ bi_pc' = "returned"
    /\ bi_out' = Compose(MergedBilingualSubs(bi_in.en_subs, bi_in.zh_subs))
    /\ UNCHANGED << bi_error, biUnchanged >>

\* `except Exception as e: raise Exception(...)`: a file cannot be read or written
BilingualFails ==
    /\ bi_pc = "accepted"
    /\ bi_pc' = "raised"
    /\ bi_error' = BilingualError
    /\ UNCHANGED << bi_out, biUnchanged >>

NextBilingual ==
    \/ TranslateStageAccepts \/ TranslateStageNoFile
    \/ CreateBilingualSubtitlesFromTranslation \/ MergeBilingualSubtitles
    \/ BilingualFails

SpecBilingual == InitBilingual /\ [][NextBilingual]_vars

----------------------------------------------------------------------------
(* translator.py, translate_subtitle_batch_enhanced.  The cues of subs are  *)
(* numbered 1..n; translated_subs holds references to them, so it is kept   *)
(* as the sequence of their numbers.  Nothing assigns a cue's start or end. *)

\* subs[i:i + batch_size], as the numbers of its cues
Batch(i) == [k \in 1 .. (Min(i + tr_in.batch_size, tr_in.n) - i) |-> i + k]

InitTranslate ==
    /\ tr_in \in [n : 0 .. MaxSubs, use_three_stage : BOOLEAN, batch_size : 1 .. MaxBatchSize]
    /\ tr_pc = IF tr_in.use_three_stage THEN "three_stage" ELSE "batch"
    /\ tr_i = 0
    /\ tr_j = 0
    /\ mapping = {}
    /\ tr_content = [k \in 1 .. tr_in.n |-> "en"]
    /\ translated_subs = << >>
    /\ PoolIdle /\ WrapIdle /\ BiIdle /\ ExtIdle

trUnchanged == << tr_in, poolVars, wrapVars, biVars, extVars >>

\* one turn of `for i, sub in enumerate(subs)`: three_stage_translation returns
ThreeStageOk ==
    /\ tr_pc = "three_stage"
    /\ tr_i < tr_in.n
    /\ tr_content' = [tr_content EXCEPT ![tr_i + 1] = "zh"]
    /\ translated_subs' = Append(translated_subs, tr_i + 1)
    /\ tr_i' = tr_i + 1
    /\ UNCHANGED << tr_pc, tr_j, mapping, trUnchanged >>

\* three_stage_translation raises: translate_simple gives the content
ThreeStageFallback ==
    /\ tr_pc = "three_stage"
    /\ tr_i < tr_in.n
    /\ \E c \in {"zh", "en"} : tr_content' = [tr_content EXCEPT ![tr_i + 1] = c]
    /\ translated_subs' = Append(translated_subs, tr_i + 1)
    /\ tr_i' = tr_i + 1
    /\ UNCHANGED << tr_pc, tr_j, mapping, trUnchanged >>

\* chat_with_ollama returns and its lines are parsed into mapping; start_idx = i + 1
BatchChat ==
    /\ tr_pc = "batch"
    /\ tr_i < tr_in.n
    /\ mapping' \in SUBSET Range(Batch(tr_i))
    /\ tr_j' = tr_i + 1
    /\ tr_pc' = "apply"
    /\ UNCHANGED << tr_i, tr_content, translated_subs, trUnchanged >>

\* chat_with_ollama or the parsing raises: `translated_subs.extend(batch)`
BatchChatFails ==
    /\ tr_pc = "batch"
    /\ tr_i < tr_in.n
    /\ translated_subs' = translated_subs \o Batch(tr_i)
    /\ tr_i' = tr_i + tr_in.batch_size
    /\ UNCHANGED << tr_pc, tr_j, mapping, tr_content, trUnchanged >>

\* the position after cue j of the batch has been dealt with
AfterCue(j) ==
    IF j = Batch(tr_i)[Len(Batch(tr_i))]
    THEN /\ tr_pc' = "batch"
         /\ tr_i' = tr_i + tr_in.batch_size
         /\ tr_j' = 0
         /\ mapping' = {}
    ELSE /\ tr_j' = j + 1
         /\ UNCHANGED << tr_pc, tr_i, mapping >>

\* one turn of `for j, sub in enumerate(batch, start=start_idx)`
ApplyResult ==
    /\ tr_pc = "apply"
    /\ tr_content' = IF tr_j \in mapping THEN [tr_content EXCEPT ![tr_j] = "zh"]
                     ELSE tr_content
    /\ translated_subs' = Append(translated_subs, tr_j)
    /\ AfterCue(tr_j)
    /\ UNCHANGED trUnchanged

\* a call made for cue j inside `if zh:` raises: `translated_subs.extend(batch)`
ApplyFails ==
    /\ tr_pc = "apply"
    /\ tr_j \in mapping
    /\ translated_subs' = translated_subs \o Batch(tr_i)
    /\ tr_pc' = "batch"
    /\ tr_i' = tr_i + tr_in.batch_size
    /\ tr_j' = 0
    /\ mapping' = {}
    /\ UNCHANGED << tr_content, trUnchanged >>

\* return translated_subs
TranslateReturn ==
    /\ tr_pc \in {"three_stage", "batch"}
    /\ tr_i >= tr_in.n
    /\ tr_pc' = "returned"
    /\ UNCHANGED << tr_i, tr_j, mapping, tr_content, translated_subs, trUnchanged >>

NextTranslate ==
    \/ ThreeStageOk \/ ThreeStageFallback
    \/ BatchChat \/ BatchChatFails
    \/ ApplyResult \/ ApplyFails
    \/ TranslateReturn

SpecTranslate == InitTranslate /\ [][NextTranslate]_vars

----------------------------------------------------------------------------
(* backend/main.py: the task table, POST /api/process, the worker running   *)
(* process_video_task_sync, and POST /api/task/{task_id}/resume.            *)

TaskIds == 1 .. MaxTasks

\* the task dict POST /api/process stores
NewTask == [status |-> "pending", stage |-> "pending", progress |-> 0, error |-> FALSE]

InitTask ==
    /\ tasks = << >>
    /\ task_job = [t \in TaskIds |-> "none"]
    /\ resumes = [t \in TaskIds |-> 0]
    /\ http_reply = 0
    /\ PoolIdle /\ WrapIdle /\ BiIdle /\ TrIdle /\ MarkIdle /\ VpIdle

taskUnchanged == << poolVars, wrapVars, biVars, trVars, markVars, vpVars >>

\* thread_safe_update_task_progress(task_id, message, progress, stage)
ThreadSafeUpdateTaskProgress(t, progress, stage) ==
    tasks' = IF t \in DOMAIN tasks
             THEN [tasks EXCEPT ![t].progress = progress, ![t].stage = stage]
             ELSE tasks

\* POST /api/process: the task is stored as pending and
\* asyncio.create_task(process_video_task(task)) is scheduled
ProcessVideoEndpoint(t) ==
    /\ t \notin DOMAIN tasks
    /\ \A u \in TaskIds : u < t => u \in DOMAIN tasks
    /\ tasks' = tasks @@ (t :> NewTask)
    /\ task_job' = [task_job EXCEPT ![t] = "queued"]
    /\ http_reply' = 200
    /\ UNCHANGED << resumes, taskUnchanged >>

\* process_video_task: run_in_executor raises; the handler marks the task failed
SubmitFails(t) ==
    /\ task_job[t] = "queued"
    /\ tasks' = [tasks EXCEPT ![t].status = "failed", ![t].error = TRUE]
    /\ task_job' = [task_job EXCEPT ![t] = "none"]
    /\ UNCHANGED << resumes, http_reply, taskUnchanged >>

\* one step of process_video_task_sync that ends in a progress update
TaskStep(t, from, to, progress, stage) ==
    /\ task_job[t] = from
    /\ ThreadSafeUpdateTaskProgress(t, progress, stage)
    /\ task_job' = [task_job EXCEPT ![t] = to]
    /\ UNCHANGED << resumes, http_reply, taskUnchanged >>

\* the worker starts: update(.., 10, "downloading"); download_youtube_video
StartDownload(t) == TaskStep(t, "queued", "download", 10, "downloading")

\* the video is downloaded: update(.., 20, "checking_subtitles")
DownloadOk(t) == TaskStep(t, "download", "check", 20, "checking_subtitles")

\* subtitles can be fetched: update(.., 30, "downloading_subtitles")
SubtitlesAvailable(t) == TaskStep(t, "check", "dl_subs", 30, "downloading_subtitles")

\* no usable YouTube subtitles: `if not en_srt`, update(.., 30, "processing")
SubtitlesUnavailable(t) == TaskStep(t, "check", "processing", 30, "processing")

\* download_youtube_subtitles returned a file: update(.., 60, "translating")
SubtitlesDownloaded(t) == TaskStep(t, "dl_subs", "translate", 60, "translating")

\* download_youtube_subtitles returned nothing: fall back to transcription
SubtitlesFallback(t) == TaskStep(t, "dl_subs", "processing", 30, "processing")

\* update(.., 40, "transcribing"); transcribe_to_srt
StartTranscribe(t) == TaskStep(t, "processing", "transcribe", 40, "transcribing")

\* transcribe_to_srt returned a file: update(.., 60, "translating")
TaskTranscribeOk(t) == TaskStep(t, "transcribe", "translate", 60, "translating")

\* translate_srt_to_zh returned a file: update(.., 80, "embedding")
TaskTranslateOk(t) == TaskStep(t, "translate", "embed", 80, "embedding")

\* burn_subtitle returned, files saved: status completed, progress 100
TaskCompleted(t) ==
    /\ task_job[t] = "embed"
    /\ tasks' = [tasks EXCEPT ![t].status = "completed", ![t].progress = 100]
    /\ task_job' = [task_job EXCEPT ![t] = "none"]
    /\ UNCHANGED << resumes, http_reply, taskUnchanged >>

\* any step raised: `except Exception` marks the task failed, progress kept
TaskFailed(t) ==
    /\ task_job[t] \in {"download", "check", "dl_subs", "transcribe", "translate", "embed"}
    /\ tasks' = [tasks EXCEPT ![t].status = "failed", ![t].error = TRUE]
    /\ task_job' = [task_job EXCEPT ![t] = "none"]
    /\ UNCHANGED << resumes, http_reply, taskUnchanged >>

\* POST /api/task/{task_id}/resume for an unknown task: 404
ResumeNotFound(t) ==
    /\ t \notin DOMAIN tasks
    /\ http_reply' = 404
    /\ UNCHANGED << tasks, task_job, resumes, taskUnchanged >>

\* resume of a task that is neither failed nor interrupted: 400
ResumeRejected(t) ==
    /\ t \in DOMAIN tasks
    /\ tasks[t].status \notin {"failed", "interrupted"}
    /\ http_reply' = 400
    /\ UNCHANGED << tasks, task_job, resumes, taskUnchanged >>

\* resume of a failed task: status = "pending", error = None, and
\* process_video_task is started again
ResumeTask(t) ==
    /\ t \in DOMAIN tasks
    /\ tasks[t].status \in {"failed", "interrupted"}
    /\ resumes[t] < MaxResumes
    /\ tasks' = [tasks EXCEPT ![t].status = "pending", ![t].error = FALSE]
    /\ task_job' = [task_job EXCEPT ![t] = "queued"]
    /\ resumes' = [resumes EXCEPT ![t] = @ + 1]
    /\ http_reply' = 200
    /\ UNCHANGED taskUnchanged

NextTask ==
    \/ \E t \in TaskIds : ProcessVideoEndpoint(t)
    \/ \E t \in TaskIds : SubmitFails(t)
    \/ \E t \in TaskIds : StartDownload(t)
    \/ \E t \in TaskIds : DownloadOk(t)
    \/ \E t \in TaskIds : SubtitlesAvailable(t)
    \/ \E t \in TaskIds : SubtitlesUnavailable(t)
    \/ \E t \in TaskIds : SubtitlesDownloaded(t)
    \/ \E t \in TaskIds : SubtitlesFallback(t)
    \/ \E t \in TaskIds : StartTranscribe(t)
    \/ \E t \in TaskIds : TaskTranscribeOk(t)
    \/ \E t \in TaskIds : TaskTranslateOk(t)
    \/ \E t \in TaskIds : TaskCompleted(t)
    \/ \E t \in TaskIds : TaskFailed(t)
    \/ \E t \in TaskIds : ResumeNotFound(t)
    \/ \E t \in TaskIds : ResumeRejected(t)
    \/ \E t \in TaskIds : ResumeTask(t)

SpecTask == InitTask /\ [][NextTask]_vars

----------------------------------------------------------------------------
(* backend/utils/video_processor.py: process_chunk and its marker files.    *)
(* A text file is the sequence of its lines; reading moves a position.      *)

MarkChunks == 1 .. MaxMarkChunks

NoFile == << >>

EmptyString == << >>

\* f.read(): everything from the position to the end of the file, as one
\* string (the lines left, with the newlines between them)
FileRead(file, pos) == SubSeq(file, pos + 1, Len(file))

\* f.readline(): the next line, or the empty string at the end of the file
FileReadLine(file, pos) == IF pos < Len(file) THEN file[pos + 1] ELSE EmptyString

\* float(text): a value, or ValueError for a text that is not a number
IsFloat(text) == text # EmptyString /\ text[1] = "float"

\* what f"{srt_path}\n{audio_duration}" writes into the .done file
DoneContent(c, audio_duration) == << << "srt", c >>, << "float", audio_duration >> >>

NoReturn == [kind |-> "none"]

InitMark ==
    /\ done_file = [c \in MarkChunks |-> NoFile]
    /\ fail_file = [c \in MarkChunks |-> FALSE]
    /\ mark_pc = [c \in MarkChunks |-> "idle"]
    /\ mark_ret = [c \in MarkChunks |-> NoReturn]
    /\ mark_calls = [c \in MarkChunks |-> 0]
    /\ PoolIdle /\ WrapIdle /\ BiIdle /\ TrIdle /\ TaskIdle /\ VpIdle

markUnchanged == << poolVars, wrapVars, biVars, trVars, taskVars, vpVars >>

\* process_chunk(chunk_path, output_dir) is called (again) for chunk c
ChunkCall(c) ==
    /\ mark_pc[c] \in {"idle", "returned", "raised"}
    /\ mark_calls[c] < MaxChunkCalls
    /\ mark_calls' = [mark_calls EXCEPT ![c] = @ + 1]
    /\ mark_pc' = [mark_pc EXCEPT ![c] = "entered"]
    /\ mark_ret' = [mark_ret EXCEPT ![c] = NoReturn]
    /\ UNCHANGED << done_file, fail_file, markUnchanged >>

\* `except Exception`: the .fail file is written and the exception raised again
ChunkHandler(c, exc) ==
    /\ fail_file' = [fail_file EXCEPT ![c] = TRUE]
    /\ mark_ret' = [mark_ret EXCEPT ![c] = [kind |-> "raised", exc |-> exc]]
    /\ mark_pc' = [mark_pc EXCEPT ![c] = "raised"]

\* the .done file exists: return f.read().strip(), float(f.readline().strip());
\* f.read() leaves the position at the end of the file
ChunkDoneExists(c) ==
    /\ mark_pc[c] = "entered"
    /\ done_file[c] # NoFile
    /\ LET first == FileRead(done_file[c], 0)
           pos == Len(done_file[c])
           second == FileReadLine(done_file[c], pos)
       IN  IF IsFloat(second)
           THEN /\ mark_ret' = [mark_ret EXCEPT ![c] =
                                   [kind |-> "value", srt |-> first, duration |-> second[2]]]
                /\ mark_pc' = [mark_pc EXCEPT ![c] = "returned"]
                /\ UNCHANGED fail_file
           ELSE ChunkHandler(c, "ValueError")
    /\ UNCHANGED << done_file, mark_calls, markUnchanged >>

\* no .done file: a .fail file left by an earlier call is removed
ChunkRetry(c) ==
    /\ mark_pc[c] = "entered"
    /\ done_file[c] = NoFile
    /\ fail_file' = [fail_file EXCEPT ![c] = FALSE]
    /\ mark_pc' = [mark_pc EXCEPT ![c] = "probe"]
    /\ UNCHANGED << done_file, mark_ret, mark_calls, markUnchanged >>

\* ffmpeg.probe raises
ChunkProbeFails(c) ==
    /\ mark_pc[c] = "probe"
    /\ ChunkHandler(c, "ProbeError")
    /\ UNCHANGED << done_file, mark_calls, markUnchanged >>

\* audio_duration = float(probe['format']['duration']); transcribe_to_srt is
\* called and returns a path: the .done file is written, the pair returned
ChunkTranscribed(c, audio_duration) ==
    /\ mark_pc[c] = "probe"
    /\ done_file' = [done_file EXCEPT ![c] = DoneContent(c, audio_duration)]
    /\ mark_ret' = [mark_ret EXCEPT ![c] =
                       [kind |-> "value", srt |-> << << "srt", c >> >>,
                        duration |-> audio_duration]]
    /\ mark_pc' = [mark_pc EXCEPT ![c] = "returned"]
    /\ UNCHANGED << fail_file, mark_calls, markUnchanged >>

\* transcribe_to_srt raises (as it does with NameError while the importer has
\* not bound that name in the module)
ChunkTranscribeFails(c) ==
    /\ mark_pc[c] = "probe"
    /\ ChunkHandler(c, "TranscribeError")
    /\ UNCHANGED << done_file, mark_calls, markUnchanged >>

NextMark ==
    \/ \E c \in MarkChunks : ChunkCall(c)
    \/ \E c \in MarkChunks : ChunkDoneExists(c)
    \/ \E c \in MarkChunks : ChunkRetry(c)
    \/ \E c \in MarkChunks : ChunkProbeFails(c)
    \/ \E c \in MarkChunks : \E d \in 1 .. MaxAudioDuration : ChunkTranscribed(c, d)
    \/ \E c \in MarkChunks : ChunkTranscribeFails(c)

SpecMark == InitMark /\ [][NextMark]_vars

----------------------------------------------------------------------------
(* backend/utils/video_processor.py: merge_subtitles and adjust_timestamp.  *)
(* A line of an SRT file is given by what the loop tests of it:             *)
(*   <<"num", n>>      its stripped text is the decimal number n            *)
(*   <<"ts", a, b>>    "a --> b", a and b timestamps HH:MM:SS,mmm           *)
(*   <<"arrow", x>>    some other text holding "-->"                        *)
(*   <<"txt", x>>      any other text                                       *)
(*   <<"blank">>       the empty line that ends a cue                       *)
(* Timestamps and durations are whole seconds, for which the float          *)
(* arithmetic of adjust_timestamp is exact.                                 *)

\* the timestamp HH:MM:SS,000 of a whole second
Timestamp(total_seconds) ==
    [hours |-> total_seconds \div 3600,
     minutes |-> (total_seconds % 3600) \div 60,
     seconds |-> total_seconds % 60]

\* adjust_timestamp(timestamp, offset): parse, add the offset, format again
AdjustTimestamp(timestamp, offset) ==
    LET total_seconds == timestamp.hours * 3600 + timestamp.minutes * 60
                         + timestamp.seconds + offset
    IN  [hours |-> total_seconds \div 3600,
         minutes |-> (total_seconds % 3600) \div 60,
         seconds |-> total_seconds % 60]

\* the text line of a cue, by the kind of text it holds
VpTextLine(kind, file, cue) ==
    IF kind = "num" THEN << "num", 2000 + 10 * file + cue >>
    ELSE << kind, << file, cue >> >>

\* the lines of cue number cue of input file number file
VpCueLines(kind, file, cue) ==
    << << "num", cue >>,
       << "ts", Timestamp(2 * (cue - 1)), Timestamp(2 * cue - 1) >>,
       VpTextLine(kind, file, cue),
       << "blank" >> >>

\* an input file: (srt_path, duration), the file holding n cues
VpFile(kind, file, n, seconds) ==
    [lines |-> Concat([cue \in 1 .. n |-> VpCueLines(kind, file, cue)]),
     cues |-> n, kind |-> kind, duration |-> seconds]

\* the argument srt_files
VpInputs ==
    UNION { { [k \in 1 .. len |-> VpFile(kinds[k], k, ns[k], ds[k])] :
                kinds \in [1 .. len -> {"txt", "num", "arrow"}],
                ns \in [1 .. len -> 1 .. MaxVpCues],
                ds \in [1 .. len -> {3, 3599}] } :
            len \in 1 .. MaxVpFiles }

InitVp ==
    /\ srt_files \in VpInputs
    /\ vp_pc = "loop"
    /\ vp_file = 1
    /\ vp_line = 1
    /\ current_offset = 0
    /\ current_index = 1
    /\ outfile = << >>
    /\ PoolIdle /\ WrapIdle /\ BiIdle /\ TrIdle /\ TaskIdle /\ MarkIdle

vpUnchanged == << srt_files, poolVars, wrapVars, biVars, trVars, taskVars, markVars >>

\* the line `for line in infile` is at
VpLine == srt_files[vp_file].lines[vp_line]

VpInLoop ==
    /\ vp_pc = "loop"
    /\ vp_file <= Len(srt_files)
    /\ vp_line <= Len(srt_files[vp_file].lines)

\* line.strip().isdigit(): the running index is written in its place
VpIndexLine ==
    /\ VpInLoop
    /\ VpLine[1] = "num"
    /\ outfile' = Append(outfile, << "num", current_index >>)
    /\ current_index' = current_index + 1
    /\ vp_line' = vp_line + 1
    /\ UNCHANGED << vp_pc, vp_file, current_offset, vpUnchanged >>

\* '-->' in line, a timestamp line: both timestamps adjusted by current_offset
VpTimestampLine ==
    /\ VpInLoop
    /\ VpLine[1] = "ts"
    /\ outfile' = Append(outfile, << "ts", AdjustTimestamp(VpLine[2], current_offset),
                                     AdjustTimestamp(VpLine[3], current_offset) >>)
    /\ vp_line' = vp_line + 1
    /\ UNCHANGED << vp_pc, vp_file, current_offset, current_index, vpUnchanged >>

\* '-->' in line, some other text: the unpacking of line.split(' --> ') or of
\* timestamp.split(':') raises ValueError, which merge_subtitles raises again
VpTimestampFails ==
    /\ VpInLoop
    /\ VpLine[1] = "arrow"
    /\ vp_pc' = "raised"
    /\ UNCHANGED << vp_file, vp_line, current_offset, current_index, outfile, vpUnchanged >>

\* any other line is written as it is
VpOtherLine ==
    /\ VpInLoop
    /\ VpLine[1] \in {"txt", "blank"}
    /\ outfile' = Append(outfile, VpLine)
    /\ vp_line' = vp_line + 1
    /\ UNCHANGED << vp_pc, vp_file, current_offset, current_index, vpUnchanged >>

\* the end of an input file: current_offset += duration
VpNextFile ==
    /\ vp_pc = "loop"
    /\ vp_file <= Len(srt_files)
    /\ vp_line > Len(srt_files[vp_file].lines)
    /\ current_offset' = current_offset + srt_files[vp_file].duration
    /\ vp_file' = vp_file + 1
    /\ vp_line' = 1
    /\ UNCHANGED << vp_pc, current_index, outfile, vpUnchanged >>

\* return output_path
VpReturn ==
    /\ vp_pc = "loop"
    /\ vp_file > Len(srt_files)
    /\ vp_pc' = "returned"
    /\ UNCHANGED << vp_file, vp_line, current_offset, current_index, outfile, vpUnchanged >>

NextVp ==
    \/ VpIndexLine \/ VpTimestampLine \/ VpTimestampFails
    \/ VpOtherLine \/ VpNextFile \/ VpReturn

SpecVp == InitVp /\ [][NextVp]_vars

----------------------------------------------------------------------------
(* Properties of the chunk plan (SpecPlan). *)

PlanContiguous(cs) ==
    /\ cs # << >> => cs[1].start_time = 0
    /\ \A k \in 1 .. (Len(cs) - 1) :
          cs[k].start_time + cs[k].duration = cs[k + 1].start_time

PlanDurations(cs) == [k \in DOMAIN cs |-> cs[k].duration]

\* C2: the chunks split_video returns are contiguous from 0, without gap or
\* overlap, and their durations sum to the video's duration exactly.
C2_ChunkCoverage ==
    pc = "split_returned" =>
        /\ PlanContiguous(chunks)
        /\ SumSeq(PlanDurations(chunks)) = duration

\* a returned plan of three or more chunks whose last chunk is a partial one
C2_Witness ==
    /\ pc = "split_returned"
    /\ Len(chunks) >= 3
    /\ chunks[Len(chunks)].duration < chunk_duration

----------------------------------------------------------------------------
(* Properties of process_video (SpecPool). *)

Failed == { i \in ChunkIds : fstate[i] = "failed" }

\* the chunked path has got past its with block
PastPool == pc \in {"adjust", "merge_srt", "merge_zh_srt", "burn"}
                \/ (pc = "returned" /\ chunks # << >>)

\* C1: once the caller has caught a chunk error, no chunk task that was still
\* queued starts running (transcribe is never invoked for it).
C1_QueuedTasksCancelled == late_starts = {}

\* the per-chunk files of one track, shifted, taken in chunk order
ShiftedInChunkOrder(track) ==
    [k \in DOMAIN chunks |->
        AdjustSubtitleTiming(
            IF track = "zh" THEN ChunkResult(chunks[k]).zh_srt
            ELSE ChunkResult(chunks[k]).srt,
            chunks[k].start_time)]

NonOverlapping(file) ==
    \A k \in 1 .. (Len(file) - 1) : file[k].end <= file[k + 1].start

\* C4: the timeline the merge step hands on never holds overlapping cues.
C4_MonotonicTimeline ==
    (pc = "burn" \/ (pc = "returned" /\ chunks # << >>)) => NonOverlapping(merged_file)

\* C7: when a chunk task has failed, nothing of the adjust, merge and burn
\* steps is executed and the run does not return.
C7_NoPartialTimeline ==
    Failed # {} =>
        /\ ~PastPool
        /\ pc # "returned"
        /\ adjusted = [srt |-> << >>, zh |-> << >>]
        /\ merged_file = << >>
        /\ output_video = "none"
        /\ (pc = "raised" => error # NoError)

\* the run raised on a chunk failure although another chunk had completed and
\* its result had been collected
C7_Witness ==
    /\ pc = "raised"
    /\ Failed # {}
    /\ results # << >>

\* C8: the exception that leaves process_video on a chunk failure carries the
\* index of a chunk that failed.
C8_ErrorCarriesChunkIndex ==
    (pc = "raised" /\ Failed # {}) =>
        /\ "chunk_index" \in DOMAIN error
        /\ error.chunk_index \in Failed

----------------------------------------------------------------------------
(* Properties of _wrap_srt_for_width (SpecWrap). *)

\* a bilingual cue with start < end has been paginated
Paginated ==
    /\ wrap_pc = "written"
    /\ wrap_in.is_bilingual
    /\ wrap_in.sub.start < wrap_in.sub.end

PageDurations(pages) == [k \in DOMAIN pages |-> pages[k].end - pages[k].start]

\* C5: the durations of the pages made for a bilingual cue with start < end
\* sum exactly to cue.end - cue.start, and the last page ends at the cue's end.
C5_DurationConserved ==
    Paginated =>
        /\ SumSeq(PageDurations(new_subs)) = wrap_in.sub.end - wrap_in.sub.start
        /\ new_subs[Len(new_subs)].end = wrap_in.sub.end

\* C6: every page written for a bilingual cue lies inside the cue's time
\* envelope: cue.start <= page.start <= page.end <= cue.end.
C6_InsideEnvelope ==
    Paginated =>
        \A k \in DOMAIN wrap_out :
            /\ wrap_in.sub.start <= wrap_out[k].start
            /\ wrap_out[k].start <= wrap_out[k].end
            /\ wrap_out[k].end <= wrap_in.sub.end

----------------------------------------------------------------------------
(* Properties of the translate stage and the bilingual merge (SpecBilingual). *)

\* C9: a translated file whose cue count differs from the transcript's is
\* rejected with a cardinality-mismatch error: the stage does not accept it
\* and no bilingual file is made from it.
C9_CardinalityGuard ==
    Len(bi_in.zh_subs) # Len(bi_in.en_subs) =>
        /\ bi_pc \notin {"accepted", "returned"}
        /\ (bi_pc = "raised" => bi_error.type = "CardinalityMismatchError")

----------------------------------------------------------------------------
(* Properties of translate_subtitle_batch_enhanced (SpecTranslate). *)

\* C10: the list returned holds the cues given, each once and in the order
\* given (their times are never assigned).
C10_SameCues ==
    tr_pc = "returned" => translated_subs = [k \in 1 .. tr_in.n |-> k]

----------------------------------------------------------------------------
(* Properties of adjust_subtitle_timing and merge_subtitles (SpecPool). *)

\* merged.srt has been written by the chunked path
MergeDone == pc \in {"merge_zh_srt", "burn"} \/ (pc = "returned" /\ chunks # << >>)

\* the per-chunk file of chunk k that went into the merged.srt now on disk
LocalFile(k) ==
    IF pc = "merge_zh_srt" THEN ChunkResult(chunks[k]).srt
    ELSE ChunkResult(chunks[k]).zh_srt

\* the positions of merged.srt holding the text of a chunk-local cue
MergedPositions(cue) == { p \in DOMAIN merged_file : merged_file[p].content = cue.content }

\* C11: the merged timeline is exactly the shifted chunk-local cues: as many
\* cues as the chunks' files hold together, and every chunk-local cue found
\* exactly once, with its text, shifted by its chunk's start_time (so that
\* it starts no earlier than start_time).
C11_MergedIsShiftedCues ==
    MergeDone =>
        /\ Len(merged_file) = SumSeq([k \in DOMAIN chunks |-> Len(LocalFile(k))])
        /\ \A k \in DOMAIN chunks : \A j \in DOMAIN LocalFile(k) :
              /\ Cardinality(MergedPositions(LocalFile(k)[j])) = 1
              /\ \A p \in MergedPositions(LocalFile(k)[j]) :
                    /\ merged_file[p].start = LocalFile(k)[j].start + chunks[k].start_time
                    /\ merged_file[p].end = LocalFile(k)[j].end + chunks[k].start_time
                    /\ merged_file[p].start >= chunks[k].start_time

\* a run of three chunks returned, its merged timeline holding a cue of the
\* last chunk shifted by that chunk's start_time
C11_Witness ==
    /\ pc = "returned"
    /\ Len(chunks) >= 3
    /\ \E p \in DOMAIN merged_file :
          /\ merged_file[p].content = LocalFile(3)[1].content
          /\ merged_file[p].start = LocalFile(3)[1].start + chunks[3].start_time
          /\ chunks[3].start_time > 0

\* C12: the cues of merged.srt are in non-decreasing order of start and the
\* cue at position k carries index k.
C12_SortedAndIndexed ==
    MergeDone =>
        /\ \A k \in DOMAIN merged_file : merged_file[k].index = k
        /\ \A k \in 1 .. (Len(merged_file) - 1) :
              merged_file[k].start <= merged_file[k + 1].start

\* a merged timeline of several chunks, whose files each numbered their cues
\* from 1, with two cues of equal start and different ends
C12_Witness ==
    /\ MergeDone
    /\ Len(chunks) >= 2
    /\ \A k \in DOMAIN chunks : LocalFile(k) # << >> => LocalFile(k)[1].index = 1
    /\ \E a, b \in DOMAIN merged_file :
          /\ a < b
          /\ merged_file[a].start = merged_file[b].start
          /\ merged_file[a].end < merged_file[b].end

----------------------------------------------------------------------------
(* Further properties of the chunk plan (SpecPlan). *)

\* the lengths split_video plans for duration D and chunk length L
PlannedLengths(D, L) == [i \in 1 .. ChunkCount(D, L) |-> PlanChunk(i - 1, D, L).duration]

\* C13: split_video plans ceil(D / L) chunks, each of length L except possibly
\* the last, whose length is in (0, L]; no chunk has length zero; 1200 s in
\* chunks of 300 s gives [300, 300, 300, 300].
C13_ChunkCountAndLengths ==
    /\ PlannedLengths(1200, 300) = << 300, 300, 300, 300 >>
    /\ pc = "split_returned" =>
          /\ Len(chunks) * chunk_duration >= duration
          /\ (Len(chunks) - 1) * chunk_duration < duration
          /\ \A k \in 1 .. (Len(chunks) - 1) : chunks[k].duration = chunk_duration
          /\ \A k \in DOMAIN chunks :
                chunks[k].duration > 0 /\ chunks[k].duration <= chunk_duration

\* a plan of four chunks returned for a duration that is four chunk lengths
C13_Witness ==
    /\ pc = "split_returned"
    /\ duration = 4 * chunk_duration
    /\ Len(chunks) = 4
    /\ chunks[4].duration = chunk_duration

----------------------------------------------------------------------------
(* Properties of the two paths of process_video (SpecPool). *)

FastPositions == {"fast_transcribe", "fast_translate", "fast_burn"}

\* C14: with a probed duration below 1200 s process_video never splits and
\* never submits to the pool, and calls transcribe and translate once each, on
\* the whole video; with 1200 s or more it takes the chunked path.
C14_FastPathBelowThreshold ==
    /\ (~is_sub_mp4 /\ duration < 1200) =>
          /\ chunks = << >> /\ total_steps = 0
          /\ submitted = 0 /\ \A i \in ChunkIds : fstate[i] = "unsubmitted"
          /\ transcribe_calls \sqsubseteq SetToBag({WholeVideo})
          /\ translate_calls \sqsubseteq SetToBag({WholeVideo})
          /\ pc \in {"start", "raised", "returned"} \cup FastPositions
          /\ pc = "returned" =>
                /\ transcribe_calls = SetToBag({WholeVideo})
                /\ translate_calls = SetToBag({WholeVideo})
    /\ duration >= 1200 =>
          /\ pc \notin FastPositions
          /\ ~BagIn(WholeVideo, transcribe_calls)
          /\ ~BagIn(WholeVideo, translate_calls)
          /\ pc = "returned" => (chunks # << >> /\ submitted = Len(chunks))

\* a video of 1199 s returned by the fast path, transcribed and translated once
C14_Witness ==
    /\ pc = "returned"
    /\ duration = 1199
    /\ transcribe_calls = SetToBag({WholeVideo})
    /\ translate_calls = SetToBag({WholeVideo})
    /\ output_video = "burned"

----------------------------------------------------------------------------
(* Properties of the page times of _wrap_srt_for_width (SpecWrap). *)

\* the cue's duration is at least min_page for each of its pages
FloorApplies ==
    wrap_in.sub.end - wrap_in.sub.start >= wrap_in.min_page * Len(new_subs)

\* C15: when the cue lasts at least floor * n, every one of its n pages, the
\* last one included, lasts at least the floor.
C15_MinimumPageDuration ==
    (Paginated /\ FloorApplies) =>
        \A k \in DOMAIN new_subs : new_subs[k].end - new_subs[k].start >= wrap_in.min_page

\* the pages of the cue being paginated, and their widths
CuePages == SplitBilingualPages(wrap_in.sub.en_line, wrap_in.sub.zh_line, wrap_in.max_eq)

\* a page's duration is its proportional share of the cue's duration, to
\* within a microsecond
Proportional(k) ==
    LET share == PageUnits(CuePages[k]) * (wrap_in.sub.end - wrap_in.sub.start)
        given == (new_subs[k].end - new_subs[k].start) * SumSeq(PageUnitsSeq(CuePages))
    IN  /\ given - share < SumSeq(PageUnitsSeq(CuePages))
        /\ share - given < SumSeq(PageUnitsSeq(CuePages))

\* C16: when floor * n exceeds the cue's duration, every page but the last
\* lasts cue duration * (its width) / (the sum of the pages' widths).
C16_PurelyProportional ==
    (Paginated /\ ~FloorApplies) =>
        \A k \in 1 .. (Len(new_subs) - 1) : Proportional(k)

\* a bilingual cue has been paginated whose two lines each fit the width
FitsOnePage ==
    /\ wrap_pc = "written"
    /\ wrap_in.is_bilingual
    /\ EqUnits(wrap_in.sub.en_line) <= wrap_in.max_eq
    /\ EqUnits(wrap_in.sub.zh_line) <= wrap_in.max_eq

\* the words of a text joined by single spaces
RECURSIVE JoinWords(_)
JoinWords(tokens) ==
    IF tokens = << >> THEN << >>
    ELSE IF Len(tokens) = 1 THEN tokens[1]
    ELSE tokens[1] \o << " " >> \o JoinWords(Tail(tokens))

SingleSpaced(text) == JoinWords(SplitTokens(text, << >>))

\* C17 as stated: a bilingual cue whose lines each fit gives exactly one page,
\* with the cue's start and end and with the cue's two lines.
C17_NoOpAsStated ==
    FitsOnePage =>
        /\ Len(new_subs) = 1
        /\ new_subs[1].start = wrap_in.sub.start
        /\ new_subs[1].end = wrap_in.sub.end
        /\ new_subs[1].content =
              PageText([en |-> wrap_in.sub.en_line, zh |-> wrap_in.sub.zh_line])

\* C17 amended: a bilingual cue with start < end whose lines each fit gives
\* exactly one page, with the cue's start and end, whose lines are the cue's
\* lines with their white space stripped and collapsed; a cue with start = end
\* gives one page of one millisecond.
C17_NoOp ==
    FitsOnePage =>
        /\ Len(new_subs) = 1
        /\ new_subs[1].start = wrap_in.sub.start
        /\ new_subs[1].end = IF wrap_in.sub.start < wrap_in.sub.end THEN wrap_in.sub.end
                             ELSE wrap_in.sub.start + ZeroDurationFallback
        /\ new_subs[1].content =
              PageText([en |-> SingleSpaced(wrap_in.sub.en_line),
                        zh |-> SingleSpaced(wrap_in.sub.zh_line)])

\* a cue of two lines, the second exactly as wide as the maximum, kept as one
\* page of two lines
C17_Witness ==
    /\ FitsOnePage
    /\ wrap_in.sub.start < wrap_in.sub.end
    /\ EqUnits(wrap_in.sub.zh_line) = wrap_in.max_eq
    /\ Len(wrap_in.sub.zh_line) = 2
    /\ Len(new_subs) = 1
    /\ Len(new_subs[1].content) = 2

----------------------------------------------------------------------------
(* Properties of _wrap_line_by_eq and _split_bilingual_pages (SpecWrap). *)

\* C18: no line of the wrapped cue is wider than the maximum equivalent width.
C18_WidthBound ==
    wrap_pc = "written" =>
        \A k \in DOMAIN new_subs : \A n \in DOMAIN new_subs[k].content :
            EqUnits(new_subs[k].content[n]) <= wrap_in.max_eq

\* the wrapped lines of one line of the cue being paginated (none for an empty line)
WrappedLines(line) == IF line = << >> THEN << >> ELSE WrapLineByEq(line, wrap_in.max_eq)

\* line i of a list of wrapped lines, empty when the list is shorter
LineAt(lines, i) == IF i <= Len(lines) THEN lines[i] ELSE << >>

\* C19: the pages of a bilingual cue pair the wrapped primary lines with the
\* wrapped secondary lines index by index: max(primary count, secondary
\* count) pages, at least one, page i holding primary line i and secondary
\* line i, a missing line being empty; so every wrapped line is in one page.
C19_PageZipping ==
    (wrap_pc = "written" /\ wrap_in.is_bilingual) =>
        LET en_wrapped == WrappedLines(wrap_in.sub.en_line)
            zh_wrapped == WrappedLines(wrap_in.sub.zh_line)
        IN  /\ Len(new_subs) = Max(1, Max(Len(en_wrapped), Len(zh_wrapped)))
            /\ \A i \in DOMAIN new_subs :
                  new_subs[i].content =
                      PageText([en |-> LineAt(en_wrapped, i), zh |-> LineAt(zh_wrapped, i)])

\* a cue whose primary line wraps into more lines than its secondary line,
\* the last page holding a primary line only
C19_Witness ==
    /\ wrap_pc = "written"
    /\ wrap_in.is_bilingual
    /\ Len(WrappedLines(wrap_in.sub.zh_line)) >= 2
    /\ Len(WrappedLines(wrap_in.sub.en_line)) > Len(WrappedLines(wrap_in.sub.zh_line))
    /\ Len(new_subs) = Len(WrappedLines(wrap_in.sub.en_line))
    /\ Len(new_subs[Len(new_subs)].content) = 1

\* the increments handed to update_progress so far, read off the rest of the
\* state: 30 per finished stage of the fast path; on the chunked path 1 per
\* chunk cut, 1 per chunk transcribed, 1 per chunk translated, 10 for the burn
IncrementsMade ==
    IF IsShort(duration)
    THEN 30 * ( (IF BagIn(WholeVideo, translate_calls) THEN 1 ELSE 0)
              + (IF pc = "fast_burn" \/ error = BurnError \/ output_video = "burned"
                 THEN 1 ELSE 0)
              + (IF output_video = "burned" THEN 1 ELSE 0) )
    ELSE Len(chunks)
         + BagCardinality(translate_calls)
         + Cardinality({i \in ChunkIds : fstate[i] = "finished"})
         + (IF output_video = "burned" THEN 10 ELSE 0)

\* the fraction a is at most the fraction b
FracLeq(a, b) == a.num * b.den <= b.num * a.den

\* C20: for every interleaving of the chunk workers, the values passed to the
\* progress callback never decrease and stay within 0..100, and no increment
\* is lost: the counter is the sum of the increments made, and the value
\* passed is the one computed from that counter.
C20_ProgressMonotone ==
    [][ /\ FracLeq(last_progress, last_progress')
        /\ 0 <= last_progress'.num
        /\ last_progress'.num <= 100 * last_progress'.den
        /\ (~is_sub_mp4 => current_progress' = IncrementsMade')
        /\ (last_progress' # last_progress =>
               /\ FracLeq(last_progress', ProgressValue(current_progress', total_steps'))
               /\ FracLeq(ProgressValue(current_progress', total_steps'), last_progress'))
      ]_vars

\* two workers are translating their chunks at the same time, both having
\* reported their transcription, and the bar is strictly between 0 and 100
C20_Witness ==
    /\ \E i, j \in ChunkIds :
          i # j /\ fstate[i] = "translating" /\ fstate[j] = "translating"
    /\ current_progress = Len(chunks) + 2
    /\ 0 < last_progress.num
    /\ last_progress.num < 100 * last_progress.den

----------------------------------------------------------------------------
(* Properties of the worker pool of process_video (SpecPool). *)

\* the with block of the chunked path has been entered and every submit made
AllSubmitted == pc \in {"collect", "unwinding"} \/ PastPool

\* C21: process_video submits exactly one task per planned chunk, and at
\* every moment at most max_workers chunk tasks are transcribing or
\* translating.
C21_BoundedPool ==
    /\ Cardinality({ i \in ChunkIds : fstate[i] \in {"transcribing", "translating"} })
           <= max_workers
    /\ submitted <= NumChunks
    /\ \A i \in ChunkIds : (fstate[i] # "unsubmitted") <=> (i < submitted)
    /\ \A i \in ChunkIds : CopiesIn(i, transcribe_calls) <= 1
    /\ AllSubmitted => (submitted = NumChunks /\ Len(chunks) = NumChunks)

\* three chunks on a pool of two workers: two are executing, the third is
\* submitted and waits in the queue
C21_Witness ==
    /\ pc = "collect"
    /\ NumChunks = 3
    /\ max_workers = 2
    /\ Cardinality(Running) = 2
    /\ \E i \in ChunkIds : fstate[i] = "pending"

\* C22: after a chunk failure the tasks still running are left to finish and
\* their results are discarded: when process_video returns or raises no chunk
\* task is executing, and from the moment the failure is observed nothing of
\* what the caller receives (the exception, the collected results, the
\* timeline, the output) changes any more.
C22_RunningFinishDiscarded ==
    [][ /\ (pc' \in {"returned", "raised"} =>
               { i \in ChunkIds : fstate'[i] \in {"transcribing", "translating"} } = {})
        /\ (pc = "unwinding" =>
               /\ pc' \in {"unwinding", "raised"}
               /\ error' = error
               /\ results' = results
               /\ yielded' = yielded
               /\ adjusted' = adjusted
               /\ merged_file' = merged_file
               /\ output_video' = output_video)
      ]_vars

\* the run raised on the failure of one chunk; another chunk ran to its end
\* on the second worker and its result was never collected
C22_Witness ==
    /\ pc = "raised"
    /\ max_workers = 2
    /\ late_starts = {}
    /\ \E i \in Failed : error = chunk_exc[i] /\ i \in yielded
    /\ \E j \in ChunkIds : fstate[j] = "finished" /\ j \notin yielded

\* process_video has ended: it returned or let an exception escape
Ended == pc \in {"returned", "raised"}

\* C23: by the time process_video ends, on success as on a chunk failure, the
\* temporary directory of the run has been removed.
C23_TempDirRemoved ==
    (Ended /\ (output_video = "burned" \/ Failed # {})) => temp_dir = "removed"

\* C24: when no cue survives reassembly the merge step fails; an empty
\* merged timeline is never returned by merge_subtitles and handed to
\* burn_subtitle.
C24_EmptyTimelineRejected == MergeDone => merged_file # << >>

----------------------------------------------------------------------------
(* Properties of the task table (SpecTask). *)

\* the order of the stages process_video_task_sync goes through
StageRank(stage) ==
    CASE stage = "pending" -> 0
      [] stage = "downloading" -> 1
      [] stage = "checking_subtitles" -> 2
      [] stage = "downloading_subtitles" -> 3
      [] stage = "processing" -> 4
      [] stage = "transcribing" -> 5
      [] stage = "translating" -> 6
      [] stage = "embedding" -> 7
      [] OTHER -> 8

\* C25: a task's stage only advances, and completed and failed are terminal:
\* once a task's status is completed or failed, no operation, the resume
\* endpoint included, changes it.
C25_TaskStateMachine ==
    [][ \A t \in DOMAIN tasks :
            /\ StageRank(tasks[t].stage) <= StageRank(tasks'[t].stage)
            /\ (tasks[t].status \in {"completed", "failed"} =>
                    tasks'[t].status = tasks[t].status)
      ]_vars

----------------------------------------------------------------------------
(* Further properties of process_video (SpecPool). *)

\* C26: no progress value passed to the callback before burn_subtitle has
\* returned is 100: until then the value is strictly less than 100.
C26_NoEarlyHundred ==
    output_video # "burned" => last_progress.num < 100 * last_progress.den

\* the cues chunk k's file holds are chunk-local: inside [0, length of the
\* chunk] and mutually non-overlapping
ChunkLocal(k) ==
    LET f == LocalFile(k)
    IN  /\ \A j \in DOMAIN f : 0 <= f[j].start /\ f[j].end <= chunks[k].duration
        /\ \A a, b \in DOMAIN f :
              a # b => (f[a].end <= f[b].start \/ f[b].end <= f[a].start)

\* the chunk a cue of the merged timeline comes from
ChunkOf(cue) == cue.content[2]

\* C27: when every chunk's cues are chunk-local, mutually non-overlapping and
\* end no later than the chunk's length, and the chunks are contiguous, the
\* merged timeline is non-overlapping and holds all cues of a chunk before
\* all cues of the next chunk.
C27_NoOverlapAcrossChunks ==
    (MergeDone /\ PlanContiguous(chunks) /\ \A k \in DOMAIN chunks : ChunkLocal(k)) =>
        /\ \A p \in 1 .. (Len(merged_file) - 1) :
              merged_file[p].end <= merged_file[p + 1].start
        /\ \A p, q \in DOMAIN merged_file :
              ChunkOf(merged_file[p]) < ChunkOf(merged_file[q]) => p < q

\* chunk-local files merged, one of them not in time order and one with a
\* cue ending exactly where its chunk ends, the next chunk's first cue
\* starting there
C27_Witness ==
    /\ MergeDone
    /\ Len(chunks) >= 2
    /\ PlanContiguous(chunks)
    /\ \A k \in DOMAIN chunks : ChunkLocal(k)
    /\ \E k \in DOMAIN chunks : transcribe_func[k - 1] \in {6, 7}
    /\ (transcribe_func[0] = 6 =>
           \E p \in 1 .. (Len(merged_file) - 1) :
              /\ merged_file[p].end = chunks[2].start_time
              /\ merged_file[p + 1].start = chunks[2].start_time)

----------------------------------------------------------------------------
(* Properties of _wrap_line_by_eq (SpecWrap). *)

\* the two lines of the cue _wrap_line_by_eq has been applied to
WrappedInputs ==
    IF wrap_pc = "written" THEN {wrap_in.sub.en_line, wrap_in.sub.zh_line} \ {<< >>}
    ELSE {}

\* the tokens of each line, in the order of the lines
TokensOfLines(lines) == Concat([n \in DOMAIN lines |-> SplitTokens(lines[n], << >>)])

\* C28 as stated: for every non-empty text the lines are all non-empty and
\* hold exactly the text's tokens in order, joined by single spaces (word
\* mode), or exactly the text's characters in order (character mode).
C28_ContentPreservedAsStated ==
    \A text \in WrappedInputs :
        LET lines == WrapLineByEq(text, wrap_in.max_eq)
            tokens == SplitTokens(text, << >>)
        IN  /\ \A n \in DOMAIN lines : lines[n] # << >>
            /\ IF Len(tokens) > 1
               THEN /\ TokensOfLines(lines) = tokens
                    /\ \A n \in DOMAIN lines : lines[n] = SingleSpaced(lines[n])
               ELSE Concat(lines) = text

\* C28 amended: for every text that holds a character other than white space,
\* the lines are all non-empty and hold exactly the text's tokens in order,
\* joined by single spaces (word mode), or exactly the characters of the text
\* without its leading and trailing white space, in order (character mode); a
\* text of white space only gives the empty string.
C28_ContentPreserved ==
    \A text \in WrappedInputs :
        LET lines == WrapLineByEq(text, wrap_in.max_eq)
            tokens == SplitTokens(text, << >>)
        IN  IF tokens = << >> THEN lines = << << >> >>
            ELSE /\ \A n \in DOMAIN lines : lines[n] # << >>
                 /\ IF Len(tokens) > 1
                    THEN /\ TokensOfLines(lines) = tokens
                         /\ \A n \in DOMAIN lines : lines[n] = SingleSpaced(lines[n])
                    ELSE Concat(lines) = tokens[1]

\* a primary line of several words broken between words and a secondary line
\* without spaces broken between characters
C28_Witness ==
    /\ wrap_pc = "written"
    /\ Len(SplitTokens(wrap_in.sub.en_line, << >>)) > 2
    /\ Len(WrapLineByEq(wrap_in.sub.en_line, wrap_in.max_eq)) = 2
    /\ Len(WrapLineByEq(wrap_in.sub.zh_line, wrap_in.max_eq)) >= 2

----------------------------------------------------------------------------
(* Properties of video_processor.process_chunk (SpecMark). *)

\* C29: a call that finds the chunk's .done file skips the transcription and
\* returns the pair recorded in it, without raising and without writing a
\* .fail file; no chunk ever has both a .done and a .fail file.
C29_DoneMarkerSkips ==
    [][ \A c \in MarkChunks :
          /\ (mark_pc[c] = "entered" /\ done_file[c] # NoFile /\ mark_pc'[c] # "entered") =>
                /\ mark_pc'[c] = "returned"
                /\ mark_ret'[c] = [kind |-> "value", srt |-> << done_file[c][1] >>,
                                   duration |-> done_file[c][2][2]]
                /\ fail_file'[c] = fail_file[c]
          /\ ~(done_file'[c] # NoFile /\ fail_file'[c])
      ]_vars

----------------------------------------------------------------------------
(* Properties of video_processor.merge_subtitles (SpecVp). *)

\* the sum of the durations of the files before file k
OffsetBefore(k) == SumSeq([j \in 1 .. (k - 1) |-> srt_files[j].duration])

\* the number of cues in the files before file k
CuesBefore(k) == SumSeq([j \in 1 .. (k - 1) |-> srt_files[j].cues])

\* the lines the claim gives cue number cue of file k
MergedCueLines(k, cue) ==
    << << "num", CuesBefore(k) + cue >>,
       << "ts", Timestamp(2 * (cue - 1) + OffsetBefore(k)),
                Timestamp(2 * cue - 1 + OffsetBefore(k)) >>,
       VpTextLine(srt_files[k].kind, k, cue),
       << "blank" >> >>

\* C30: merge_subtitles returns, and its output holds, for every input cue in
\* order across the files, one index line numbered 1..N, the cue's timestamps
\* shifted by the sum of the durations of the files before its file, and the
\* cue's text lines unchanged, whatever the text is.
C30_ConcatenatesAnyText ==
    vp_pc \in {"returned", "raised"} =>
        /\ vp_pc = "returned"
        /\ outfile = Concat([k \in DOMAIN srt_files |->
                               Concat([cue \in 1 .. srt_files[k].cues |->
                                         MergedCueLines(k, cue)])])

====
